---- MODULE Spec2Model ----
(***************************************************************************)
(* Backtesting framework: the cost model (costs/cost_model.py) and the     *)
(* simulation engine (engine/backtest_engine.py).                          *)
(*                                                                         *)
(* Numbers.  The program computes in binary floating point.  The model     *)
(* computes in fixed point, rounding to nearest after the operations that  *)
(* leave the grid, in the order the code performs them:                    *)
(*   money              cents                (1000.0    -> 100000)         *)
(*   price              whole currency units (100.0     -> 100)            *)
(*   quantity           hundredths of a unit (10.0      -> 1000)           *)
(*   position_size_pct  percent              (0.1       -> 10)             *)
(*   *_bps              tenths of a bp       (0.5       -> 5)              *)
(*   commission_rate    thousandths          (0.005     -> 5)              *)
(*   financing rate     percent per year     (0.05      -> 5)              *)
(*   market conditions  tenths               (1.0       -> 10)             *)
(*   return_pct         1/10000 of a percent (9.9475    -> 99475)          *)
(*   dates              half days            (holding_days = whole days)   *)
(***************************************************************************)
EXTENDS Integers, Sequences, FiniteSets, TLC

VARIABLES
    initial_capital,    \* BacktestEngine.initial_capital
    cost_model,         \* BacktestEngine.cost_model
    position_size_pct,  \* BacktestEngine.position_size_pct
    max_positions,      \* BacktestEngine.max_positions
    allow_shorting,     \* BacktestEngine.allow_shorting
    capital,            \* BacktestEngine.capital
    positions,          \* BacktestEngine.positions
    closed_trades,      \* BacktestEngine.closed_trades
    equity_curve,       \* BacktestEngine.equity_curve
    current_date,       \* BacktestEngine.current_date
    current_price,      \* BacktestEngine.current_price
    pc,                 \* where run_backtest stands: "idle", "loop", "equity"
    nbars,              \* run_backtest: len(data)
    index_start,        \* run_backtest: the first label of data.index
    i,                  \* run_backtest: rows already iterated
    row,                \* run_backtest: the row iterated last
    signal,             \* run_backtest: the strategy's answer at the row iterated last
    quiet,              \* run_backtest: no answer so far was buy, sell, short or cover
    history,            \* run_backtest: how many leading rows the strategy was handed
    op,                 \* the operation that acted last
    ret,                \* what it returned or raised
    opened,             \* positions appended since construction or reset
    steps,              \* method calls made and rows iterated since construction or reset
    run_start,          \* counts taken when run_backtest was entered
    registry,           \* cost_model.COST_PRESETS, the module's dict of presets
    args                \* the arguments of the last call, when of the cost model

vars == <<initial_capital, cost_model, position_size_pct, max_positions,
          allow_shorting, capital, positions, closed_trades, equity_curve,
          current_date, current_price, pc, nbars, index_start, i, row, signal, quiet,
          history, op, ret, opened, steps, run_start, registry, args>>

config == <<initial_capital, cost_model, position_size_pct, max_positions,
            allow_shorting>>

runvars == <<pc, nbars, index_start, i, row, signal, quiet, history, run_start>>

----------------------------------------------------------------------------
(* Bounds of the model *)

MaxSteps == 4

\* data.index is RangeIndex(start, start + len(data)): 0 for a frame as built,
\* 1 for one whose first row was dropped (df.iloc[1:], df.dropna())
IndexStarts == {0, 1}

Dates == {0, 2}
Prices == {50, 100}


\* an Optional argument: None, or a value
None == [none |-> TRUE]
Some(x) == [none |-> FALSE, val |-> x]

\* current_date is None until a position is opened or closed
NoDate == -1

Calm == [volatility |-> 10, volume_ratio |-> 10, liquidity |-> 10]
Stressed == [volatility |-> 20, volume_ratio |-> 5, liquidity |-> 5]
MarketConditions == {Calm, Stressed}

\* the rows a DataFrame of the model is made of
Bars == {[date |-> 0, price |-> 100, mc |-> Calm],
         [date |-> 2, price |-> 50, mc |-> Calm],
         [date |-> 2, price |-> 100, mc |-> Stressed]}

\* run_backtest's row before the first iteration
NoRow == [date |-> NoDate, price |-> 0, mc |-> None]

\* the (date, price, market_conditions) a caller passes to the engine's methods
Quotes == {[date |-> 0, price |-> 100, mc |-> None],
           [date |-> 2, price |-> 50, mc |-> Stressed]}

\* the (date, price, side, quantity) a caller passes to open_position: either
\* side sized by the engine, and one explicit quantity (1.00)
OpenArgs ==
    {[date |-> 0, price |-> 100, side |-> side, quantity |-> None] :
        side \in {"long", "short"}}
    \cup {[date |-> 0, price |-> 100, side |-> "long", quantity |-> Some(100)]}

Signals == {"buy", "sell", "short", "cover", "hold"}

----------------------------------------------------------------------------
(* Arithmetic *)

Abs(x) == IF x < 0 THEN -x ELSE x

\* a / b rounded to the nearest grid point (b # 0)
RDiv(a, b) ==
    LET q == (2 * Abs(a) + Abs(b)) \div (2 * Abs(b))
    IN  IF (a < 0) = (b < 0) THEN q ELSE -q

\* a x 10^n / b rounded to nearest, for a >= 0 and b > 0, a digit at a time so
\* that no intermediate value leaves the model checker's integers
RECURSIVE Shifted(_, _, _)
Shifted(a, b, n) ==
    IF n = 0 THEN RDiv(a, b)
    ELSE LET digits == Shifted((a % b) * 10, b, n - 1)
             RECURSIVE Pow10(_)
             Pow10(k) == IF k = 0 THEN 1 ELSE 10 * Pow10(k - 1)
         IN  (a \div b) * Pow10(n) + digits

RECURSIVE SumSeq(_)
SumSeq(s) == IF s = <<>> THEN 0 ELSE Head(s) + SumSeq(Tail(s))

----------------------------------------------------------------------------
(* costs/cost_model.py *)

AssetClass == {"forex", "stocks", "crypto", "futures", "options"}

\* CostModel.__init__, with its defaults for the arguments a caller omits
CostModel(asset_class, spread_bps, commission_rate, slippage_model, base_slippage_bps, financing_rate_annual, exchange_fee_bps) ==
    [asset_class |-> asset_class,
     spread_bps |-> spread_bps,
     commission_rate |-> commission_rate,
     slippage_model |-> slippage_model,
     base_slippage_bps |-> base_slippage_bps,
     financing_rate_annual |-> financing_rate_annual,
     exchange_fee_bps |-> exchange_fee_bps]

TradingCosts(spread_cost, slippage_cost, commission, financing_cost, exchange_fees) ==
    [spread_cost |-> spread_cost,
     slippage_cost |-> slippage_cost,
     commission |-> commission,
     financing_cost |-> financing_cost,
     exchange_fees |-> exchange_fees]

\* TradingCosts.total_cost (a property: computed from the fields at each read)
TotalCost(c) ==
    c.spread_cost + c.slippage_cost + c.commission + c.financing_cost + c.exchange_fees

\* TradingCosts.to_dict
CostsToDict(c) ==
    [spread_cost |-> c.spread_cost,
     slippage_cost |-> c.slippage_cost,
     commission |-> c.commission,
     financing_cost |-> c.financing_cost,
     exchange_fees |-> c.exchange_fees,
     total_cost |-> TotalCost(c)]

\* `if market_conditions:` is false for None
Truthy(market_conditions) == market_conditions # None

CalculateSpreadCost(cm, price, quantity, market_conditions) ==
    LET base == RDiv(cm.spread_bps * price * Abs(quantity), 100000)
    IN  IF Truthy(market_conditions)
        THEN RDiv(RDiv(base * market_conditions.volatility, 10)
                    * (20 - market_conditions.liquidity), 10)
        ELSE base

CalculateSlippage(cm, price, quantity, market_conditions) ==
    LET base == RDiv(cm.base_slippage_bps * price * Abs(quantity), 100000)
    IN  CASE cm.slippage_model = "fixed" -> base
          [] cm.slippage_model = "volume" ->
                LET volume_factor == IF Truthy(market_conditions)
                                     THEN market_conditions.volume_ratio ELSE 10
                    floor == IF volume_factor > 1 THEN volume_factor ELSE 1
                    slippage_multiplier == 100 + RDiv(1000, floor)
                IN  RDiv(base * slippage_multiplier, 100)
          [] cm.slippage_model = "volatility" ->
                LET volatility == IF Truthy(market_conditions)
                                  THEN market_conditions.volatility ELSE 10
                IN  RDiv(base * volatility, 10)
          [] OTHER -> 0

\* the stock threshold inclusive: a rate of exactly 0.01 taken for a percentage
CalculateCommission_ThresholdInclusive(cm, price, quantity, is_entry) ==
    CASE cm.asset_class \in {"forex", "futures"} ->
            RDiv(cm.commission_rate * Abs(quantity), 1000)
      [] cm.asset_class = "stocks" ->
            IF cm.commission_rate <= 10
            THEN RDiv(cm.commission_rate * price * Abs(quantity), 100000)
            ELSE RDiv(cm.commission_rate * Abs(quantity), 1000)
      [] cm.asset_class = "crypto" ->
            RDiv(cm.commission_rate * price * Abs(quantity), 100000)
      [] OTHER -> 0

CalculateCommission(cm, price, quantity, is_entry) ==
    CASE cm.asset_class = "forex" -> RDiv(cm.commission_rate * Abs(quantity), 1000)
      [] cm.asset_class = "stocks" ->
            IF cm.commission_rate < 10
            THEN RDiv(cm.commission_rate * price * Abs(quantity), 100000)
            ELSE RDiv(cm.commission_rate * Abs(quantity), 1000)
      [] cm.asset_class = "crypto" ->
            RDiv(cm.commission_rate * price * Abs(quantity), 100000)
      [] cm.asset_class = "futures" -> RDiv(cm.commission_rate * Abs(quantity), 1000)
      [] OTHER -> 0

\* every short charged what a long is charged
CalculateFinancingCost_ShortAsLong(cm, price, quantity, holding_days, is_long) ==
    IF holding_days = 0 THEN 0
    ELSE RDiv(price * Abs(quantity) * RDiv(cm.financing_rate_annual * 10000, 365),
              1000000) * holding_days

CalculateFinancingCost(cm, price, quantity, holding_days, is_long) ==
    IF holding_days = 0 THEN 0
    ELSE LET position_value == price * Abs(quantity)
             daily_rate == RDiv(cm.financing_rate_annual * 10000, 365)
             per_day == RDiv(position_value * daily_rate, 1000000)
         IN  IF is_long THEN per_day * holding_days
             ELSE IF cm.asset_class = "forex" THEN (-per_day) * holding_days
             ELSE RDiv(per_day * 15, 10) * holding_days

CalculateExchangeFees(cm, price, quantity) ==
    RDiv(cm.exchange_fee_bps * price * Abs(quantity), 100000)

\* the spread charged on the entry only
CalculateTotalCosts_EntrySpreadOnly(cm, entry_price, exit_price, quantity, holding_days, is_long, entry_conditions, exit_conditions) ==
    TradingCosts(CalculateSpreadCost(cm, entry_price, quantity, entry_conditions),
                 CalculateSlippage(cm, entry_price, quantity, entry_conditions)
                    + CalculateSlippage(cm, exit_price, quantity, exit_conditions),
                 CalculateCommission(cm, entry_price, quantity, TRUE)
                    + CalculateCommission(cm, exit_price, quantity, FALSE),
                 CalculateFinancingCost(cm, entry_price, quantity, holding_days, is_long),
                 CalculateExchangeFees(cm, entry_price, quantity)
                    + CalculateExchangeFees(cm, exit_price, quantity))

CalculateTotalCosts(cm, entry_price, exit_price, quantity, holding_days, is_long, entry_conditions, exit_conditions) ==
    LET entry_spread == CalculateSpreadCost(cm, entry_price, quantity, entry_conditions)
        entry_slippage == CalculateSlippage(cm, entry_price, quantity, entry_conditions)
        entry_commission == CalculateCommission(cm, entry_price, quantity, TRUE)
        entry_exchange == CalculateExchangeFees(cm, entry_price, quantity)
        exit_spread == CalculateSpreadCost(cm, exit_price, quantity, exit_conditions)
        exit_slippage == CalculateSlippage(cm, exit_price, quantity, exit_conditions)
        exit_commission == CalculateCommission(cm, exit_price, quantity, FALSE)
        exit_exchange == CalculateExchangeFees(cm, exit_price, quantity)
        financing == CalculateFinancingCost(cm, entry_price, quantity, holding_days, is_long)
    IN  TradingCosts(entry_spread + exit_spread,
                     entry_slippage + exit_slippage,
                     entry_commission + exit_commission,
                     financing,
                     entry_exchange + exit_exchange)

PresetNames == {"forex_retail", "forex_institutional", "stocks_commission_free",
                "stocks_traditional", "crypto_exchange", "futures_cme"}

\* the table with the crypto exchange on fixed slippage
COST_PRESETS_CryptoFixed ==
    [name \in PresetNames |->
        CASE name = "forex_retail" -> CostModel("forex", 20, 0, "fixed", 5, 5, 0)
          [] name = "forex_institutional" -> CostModel("forex", 5, 0, "fixed", 2, 3, 0)
          [] name = "stocks_commission_free" -> CostModel("stocks", 50, 0, "fixed", 10, 8, 0)
          [] name = "stocks_traditional" -> CostModel("stocks", 50, 5, "fixed", 10, 8, 0)
          [] name = "crypto_exchange" -> CostModel("crypto", 100, 100, "fixed", 50, 0, 0)
          [] name = "futures_cme" -> CostModel("futures", 10, 2500, "fixed", 5, 0, 0)]

COST_PRESETS ==
    [name \in PresetNames |->
        CASE name = "forex_retail" -> CostModel("forex", 20, 0, "fixed", 5, 5, 0)
          [] name = "forex_institutional" -> CostModel("forex", 5, 0, "fixed", 2, 3, 0)
          [] name = "stocks_commission_free" -> CostModel("stocks", 50, 0, "fixed", 10, 8, 0)
          [] name = "stocks_traditional" -> CostModel("stocks", 50, 5, "fixed", 10, 8, 0)
          [] name = "crypto_exchange" -> CostModel("crypto", 100, 100, "volatility", 50, 0, 0)
          [] name = "futures_cme" -> CostModel("futures", 10, 2500, "fixed", 5, 0, 0)]

\* the engines of the model, by their constructor arguments: one that may hold
\* nothing, the cautious one of the examples (10% of capital, one position,
\* here without shorting), and one staking the full capital on each of two positions
Engines ==
    {[initial_capital |-> 100000, cost_model |-> COST_PRESETS["forex_retail"],
      position_size_pct |-> 10, max_positions |-> 0, allow_shorting |-> TRUE],
     [initial_capital |-> 100000, cost_model |-> COST_PRESETS["crypto_exchange"],
      position_size_pct |-> 10, max_positions |-> 1, allow_shorting |-> FALSE],
     [initial_capital |-> 100000, cost_model |-> COST_PRESETS["forex_retail"],
      position_size_pct |-> 100, max_positions |-> 2, allow_shorting |-> TRUE]}

----------------------------------------------------------------------------
(* engine/backtest_engine.py: records *)

Position(entry_date, entry_price, quantity, side) ==
    [entry_date |-> entry_date, entry_price |-> entry_price,
     quantity |-> quantity, side |-> side]

\* a short marked to market as if it were a long
MarkToMarket_ShortAsLong(pos, price) == (price - pos.entry_price) * pos.quantity

\* Position.mark_to_market
MarkToMarket(pos, price) ==
    IF pos.side = "long"
    THEN (price - pos.entry_price) * pos.quantity
    ELSE (pos.entry_price - price) * pos.quantity

\* a float: nan, or a number
NaN == [nan |-> TRUE, val |-> 0]
Float(x) == [nan |-> FALSE, val |-> x]

\* Trade.to_dict
TradeToDict(t) ==
    [entry_date |-> t.entry_date, entry_price |-> t.entry_price,
     exit_date |-> t.exit_date, exit_price |-> t.exit_price,
     quantity |-> t.quantity, side |-> t.side,
     holding_days |-> t.holding_days, gross_pnl |-> t.gross_pnl,
     net_pnl |-> t.net_pnl, return_pct |-> t.return_pct,
     spread_cost |-> CostsToDict(t.costs).spread_cost,
     slippage_cost |-> CostsToDict(t.costs).slippage_cost,
     commission |-> CostsToDict(t.costs).commission,
     financing_cost |-> CostsToDict(t.costs).financing_cost,
     exchange_fees |-> CostsToDict(t.costs).exchange_fees,
     total_cost |-> CostsToDict(t.costs).total_cost]

\* the days counted inclusively: the day of entry and the day of exit
HoldingDays_Inclusive(entry_date, date) == (date - entry_date) \div 2 + 1

\* (date - position.entry_date).days: timedelta.days is the floor of the difference
HoldingDays(entry_date, date) == (date - entry_date) \div 2

\* list.remove(x): drops the first element equal to x (Position is a dataclass,
\* so equality compares the fields)
RECURSIVE RemoveFirst(_, _)
RemoveFirst(s, x) ==
    IF s = <<>> THEN <<>>
    ELSE IF Head(s) = x THEN Tail(s)
    ELSE <<Head(s)>> \o RemoveFirst(Tail(s), x)

Contains(s, x) == \E k \in 1..Len(s) : s[k] = x

----------------------------------------------------------------------------
(* engine/backtest_engine.py: the methods, on the engine's mutable fields    *)
(* e = [capital, positions, closed_trades, current_date, current_price,     *)
(*      raised], raised naming the exception that ended the call ("" none)  *)

Engine == [capital |-> capital, positions |-> positions,
           closed_trades |-> closed_trades, current_date |-> current_date,
           current_price |-> current_price, raised |-> ""]

\* the capacity test off by one: a position too many
CanOpenPosition_OffByOne(n_open, max) == n_open <= max

CanOpenPosition(n_open, max) == n_open < max

\* the size taken from the initial capital: no compounding
GetPositionSize_InitialCapital(cap, pct, price) ==
    RDiv(RDiv(initial_capital * pct, 100), price)

GetPositionSize(cap, pct, price) ==
    LET position_value == RDiv(cap * pct, 100)
    IN  RDiv(position_value, price)

GrossPnl(position, price) ==
    IF position.side = "long"
    THEN (price - position.entry_price) * position.quantity
    ELSE (position.entry_price - price) * position.quantity

\* the costs added to the profit
NetPnl_CostsAdded(gross_pnl, costs) == gross_pnl + TotalCost(costs)

NetPnl(gross_pnl, costs) == gross_pnl - TotalCost(costs)

\* the capital update forgetting the costs' sign: capital moves against the trade
CapitalAfterClose_Reversed(cap, net_pnl) == cap - net_pnl

\* self.capital += net_pnl
CapitalAfterClose(cap, net_pnl) == cap + net_pnl

\* open_position without the test of allow_shorting
OpenAccepted_ShortsAlways(e, side) ==
    CanOpenPosition(Len(e.positions), max_positions)

\* open_position accepts the call
OpenAccepted(e, side) ==
    /\ CanOpenPosition(Len(e.positions), max_positions)
    /\ ~(side = "short" /\ ~allow_shorting)

\* open_position: the engine afterwards (quantity None: sized from the capital)
OpenPosition(e, date, price, side, quantity) ==
    IF ~OpenAccepted(e, side) THEN e
    ELSE LET q == IF quantity.none
                  THEN GetPositionSize(e.capital, position_size_pct, price)
                  ELSE quantity.val
         IN  [e EXCEPT !.positions = Append(@, Position(date, price, q, side)),
                       !.current_date = date,
                       !.current_price = price]

\* return_pct = (net_pnl / position_value) * 100
ReturnPct(net_pnl, position_value) ==
    LET sign == IF (net_pnl < 0) = (position_value < 0) THEN 1 ELSE -1
    IN  sign * Shifted(Abs(net_pnl) * 100, Abs(position_value), 4)

\* close_position: the engine afterwards.  numpy: the operands are numpy
\* floats (x / 0.0 is nan with a warning) and not Python floats (it raises).
ClosePosition(e, position, date, price, market_conditions, numpy) ==
    LET holding_days == HoldingDays(position.entry_date, date)
        gross_pnl == GrossPnl(position, price)
        costs == CalculateTotalCosts(cost_model, position.entry_price, price,
                                     position.quantity, holding_days,
                                     position.side = "long",
                                     market_conditions, market_conditions)
        net_pnl == NetPnl(gross_pnl, costs)
        position_value == position.entry_price * position.quantity
        return_pct == IF position_value = 0 THEN NaN
                      ELSE Float(ReturnPct(net_pnl, position_value))
        trade == [entry_date |-> position.entry_date,
                  entry_price |-> position.entry_price,
                  exit_date |-> date,
                  exit_price |-> price,
                  quantity |-> position.quantity,
                  side |-> position.side,
                  costs |-> costs,
                  gross_pnl |-> gross_pnl,
                  net_pnl |-> net_pnl,
                  holding_days |-> holding_days,
                  return_pct |-> return_pct]
    IN  IF position_value = 0 /\ ~numpy
        THEN [e EXCEPT !.raised = "ZeroDivisionError"]
        ELSE IF ~Contains(e.positions, position)
        THEN [e EXCEPT !.capital = CapitalAfterClose(@, net_pnl),
                       !.closed_trades = Append(@, trade),
                       !.raised = "ValueError"]
        ELSE [e EXCEPT !.capital = CapitalAfterClose(@, net_pnl),
                       !.closed_trades = Append(@, trade),
                       !.positions = RemoveFirst(@, position),
                       !.current_date = date,
                       !.current_price = price]

\* `for pos in self.positions.copy(): if pos.side ...: self.close_position(pos, ...)`
\* over the copy todo; an exception ends the loop
RECURSIVE CloseEach(_, _, _, _, _, _, _)
CloseEach(e, todo, sides, date, price, market_conditions, numpy) ==
    IF todo = <<>> \/ e.raised # "" THEN e
    ELSE LET pos == Head(todo)
             e1 == IF pos.side \in sides
                   THEN ClosePosition(e, pos, date, price, market_conditions, numpy)
                   ELSE e
         IN  CloseEach(e1, Tail(todo), sides, date, price, market_conditions, numpy)

\* close_all_positions passing over the shorts
CloseAllPositions_LongsOnly(e, date, price, market_conditions, numpy) ==
    CloseEach(e, e.positions, {"long"}, date, price, market_conditions, numpy)

CloseAllPositions(e, date, price, market_conditions, numpy) ==
    CloseEach(e, e.positions, {"long", "short"}, date, price, market_conditions, numpy)

\* the sample stamped with the engine's current_date and not the bar's date
EquitySample_CurrentDate(cap, open_positions, date, price) ==
    LET unrealized_pnl == SumSeq([k \in 1..Len(open_positions) |->
                                    MarkToMarket(open_positions[k], price)])
    IN  [date |-> current_date,
         price |-> price,
         capital |-> cap,
         unrealized_pnl |-> unrealized_pnl,
         total_equity |-> cap + unrealized_pnl,
         num_positions |-> Len(open_positions)]

\* update_equity: the sample it appends
EquitySample(cap, open_positions, date, price) ==
    LET unrealized_pnl == SumSeq([k \in 1..Len(open_positions) |->
                                    MarkToMarket(open_positions[k], price)])
    IN  [date |-> date,
         price |-> price,
         capital |-> cap,
         unrealized_pnl |-> unrealized_pnl,
         total_equity |-> cap + unrealized_pnl,
         num_positions |-> Len(open_positions)]

\* len(data.iloc[:stop]) for a frame of n rows: the rows before position stop,
\* a negative stop counting from the end
IlocLen(n, stop) ==
    IF stop >= 0 THEN (IF stop < n THEN stop ELSE n)
    ELSE (IF n + stop > 0 THEN n + stop ELSE 0)

----------------------------------------------------------------------------
(* The engine as a state machine *)

\* BacktestEngine.__init__
Init ==
    /\ \E engine \in Engines :
          /\ initial_capital = engine.initial_capital
          /\ cost_model = engine.cost_model
          /\ position_size_pct = engine.position_size_pct
          /\ max_positions = engine.max_positions
          /\ allow_shorting = engine.allow_shorting
    /\ capital = initial_capital
    /\ positions = <<>>
    /\ closed_trades = <<>>
    /\ equity_curve = <<>>
    /\ current_date = NoDate
    /\ current_price = 0
    /\ pc = "idle"
    /\ nbars = 0
    /\ index_start = 0
    /\ i = 0
    /\ row = NoRow
    /\ signal = ""
    /\ quiet = TRUE
    /\ history = 0
    /\ op = "__init__"
    /\ ret = "None"
    /\ opened = 0
    /\ steps = 0
    /\ run_start = [trades |-> 0, positions |-> 0, opened |-> 0, samples |-> 0]
    /\ registry = COST_PRESETS
    /\ args = <<>>

\* the engine's fields after a method that left the engine as e
Commit(e) ==
    /\ capital' = e.capital
    /\ positions' = e.positions
    /\ closed_trades' = e.closed_trades
    /\ current_date' = e.current_date
    /\ current_price' = e.current_price

\* a method is called from outside.  The model follows an engine for MaxSteps
\* steps (a call, or a row of run_backtest), and as many again after each reset
Called(name) ==
    /\ pc = "idle"
    /\ steps < MaxSteps
    /\ steps' = steps + 1
    /\ op' = name

\* engine.open_position(date, price, side, quantity)
OpenPositionCall(date, price, side, quantity) ==
    /\ Called("open_position")
    /\ Commit(OpenPosition(Engine, date, price, side, quantity))
    /\ opened' = IF OpenAccepted(Engine, side) THEN opened + 1 ELSE opened
    /\ ret' = IF OpenAccepted(Engine, side) THEN "True" ELSE "False"
    /\ args' = <<>>
    /\ UNCHANGED <<registry, config, equity_curve, runvars>>

\* the positions a caller can hold a reference to: the open ones and the closed ones
PositionOf(t) == Position(t.entry_date, t.entry_price, t.quantity, t.side)
Handles == {positions[k] : k \in 1..Len(positions)}
              \cup {PositionOf(closed_trades[k]) : k \in 1..Len(closed_trades)}

\* engine.close_position(position, date, price, market_conditions)
ClosePositionCall(position, date, price, market_conditions, numpy) ==
    /\ Called("close_position")
    /\ LET e == ClosePosition(Engine, position, date, price, market_conditions, numpy)
       IN  /\ Commit(e)
           /\ ret' = IF e.raised = "" THEN "Trade" ELSE e.raised
    /\ args' = <<>>
    /\ UNCHANGED <<registry, config, equity_curve, opened, runvars>>

\* engine.close_all_positions(date, price, market_conditions)
CloseAllPositionsCall(date, price, market_conditions, numpy) ==
    /\ Called("close_all_positions")
    /\ LET e == CloseAllPositions(Engine, date, price, market_conditions, numpy)
       IN  /\ Commit(e)
           /\ ret' = IF e.raised = "" THEN "None" ELSE e.raised
    /\ args' = <<>>
    /\ UNCHANGED <<registry, config, equity_curve, opened, runvars>>

\* engine.update_equity(date, price)
UpdateEquityCall(date, price) ==
    /\ Called("update_equity")
    /\ equity_curve' = Append(equity_curve, EquitySample(capital, positions, date, price))
    /\ ret' = "None"
    /\ args' = <<>>
    /\ UNCHANGED <<registry, config, capital, positions, closed_trades, current_date,
                   current_price, opened, runvars>>

\* a reset that forgets to empty the trade list
Reset_KeepsTrades ==
    /\ pc = "idle"
    /\ steps' = 0
    /\ capital' = initial_capital
    /\ positions' = <<>>
    /\ equity_curve' = <<>>
    /\ current_date' = NoDate
    /\ current_price' = 0
    /\ opened' = 0
    /\ op' = "reset"
    /\ ret' = "None"
    /\ args' = <<>>
    /\ UNCHANGED <<registry, config, closed_trades, runvars>>

\* engine.reset()
Reset ==
    /\ pc = "idle"
    /\ steps' = 0
    /\ capital' = initial_capital
    /\ positions' = <<>>
    /\ closed_trades' = <<>>
    /\ equity_curve' = <<>>
    /\ current_date' = NoDate
    /\ current_price' = 0
    /\ opened' = 0
    /\ op' = "reset"
    /\ ret' = "None"
    /\ args' = <<>>
    /\ UNCHANGED <<registry, config, runvars>>

\* engine.can_open_position()
CanOpenPositionCall ==
    /\ Called("can_open_position")
    /\ ret' = IF CanOpenPosition(Len(positions), max_positions) THEN "True" ELSE "False"
    /\ args' = <<>>
    /\ UNCHANGED <<registry, config, capital, positions, closed_trades, equity_curve,
                   current_date, current_price, opened, runvars>>

\* engine.get_position_size(price)
GetPositionSizeCall(price) ==
    /\ Called("get_position_size")
    /\ ret' = "float"
    /\ args' = <<>>
    /\ UNCHANGED <<registry, config, capital, positions, closed_trades, equity_curve,
                   current_date, current_price, opened, runvars>>

\* the dict get_results builds from the engine's fields; in ret the dict is
\* abbreviated to "Results"
GetResults ==
    [initial_capital |-> initial_capital,
     final_capital |-> capital,
     total_return |->
        (IF capital < initial_capital THEN -1 ELSE 1)
            * Shifted(Abs(capital - initial_capital) * 100, initial_capital, 4),
     num_trades |-> Len(closed_trades),
     trades |-> [k \in 1..Len(closed_trades) |-> TradeToDict(closed_trades[k])],
     equity_curve |-> equity_curve]

\* engine.get_results()
GetResultsCall ==
    /\ Called("get_results")
    /\ ret' = "Results"
    /\ args' = <<>>
    /\ UNCHANGED <<registry, config, capital, positions, closed_trades, equity_curve,
                   current_date, current_price, opened, runvars>>


----------------------------------------------------------------------------
(* run_backtest(data, strategy), a step at a time.  The frame's length and   *)
(* index are fixed at the call; a row's values are drawn when iterrows       *)
(* yields it, rows in time order.                                            *)

\* the call: `for idx, row in data.iterrows():` starts
RunBacktestCall(n, start) ==
    /\ Called("run_backtest")
    /\ steps + 1 + n <= MaxSteps
    /\ pc' = "loop"
    /\ nbars' = n
    /\ index_start' = start
    /\ i' = 0
    /\ row' = NoRow
    /\ signal' = ""
    /\ quiet' = TRUE
    /\ history' = 0
    /\ run_start' = [trades |-> Len(closed_trades), positions |-> Len(positions),
                     opened |-> opened, samples |-> Len(equity_curve)]
    /\ ret' = "running"
    /\ args' = <<>>
    /\ UNCHANGED <<registry, config, capital, positions, closed_trades, equity_curve,
                   current_date, current_price, opened>>

\* the if/elif chain taking every unrecognised signal for a buy
ProcessSignal_ElseBuy(e, sig, r) ==
    IF sig \in {"sell", "short", "cover"} THEN e
    ELSE OpenPosition(e, r.date, r.price, "long", None)

\* the if/elif chain with a sell that closes the positions of both sides
ProcessSignal_SellClosesAll(e, sig, r) ==
    CASE sig = "buy" /\ CanOpenPosition(Len(e.positions), max_positions) ->
            OpenPosition(e, r.date, r.price, "long", None)
      [] sig = "sell" /\ Len(e.positions) > 0 ->
            CloseEach(e, e.positions, {"long", "short"}, r.date, r.price, r.mc, TRUE)
      [] sig = "short" /\ CanOpenPosition(Len(e.positions), max_positions)
                       /\ allow_shorting ->
            OpenPosition(e, r.date, r.price, "short", None)
      [] sig = "cover" /\ Len(e.positions) > 0 ->
            CloseEach(e, e.positions, {"short"}, r.date, r.price, r.mc, TRUE)
      [] OTHER -> e

\* the if/elif chain with a sell that reverses: the longs closed, a short opened
ProcessSignal_SellReverses(e, sig, r) ==
    CASE sig = "buy" /\ CanOpenPosition(Len(e.positions), max_positions) ->
            OpenPosition(e, r.date, r.price, "long", None)
      [] sig = "sell" /\ Len(e.positions) > 0 ->
            OpenPosition(CloseEach(e, e.positions, {"long"}, r.date, r.price, r.mc, TRUE),
                         r.date, r.price, "short", None)
      [] sig = "short" /\ CanOpenPosition(Len(e.positions), max_positions)
                       /\ allow_shorting ->
            OpenPosition(e, r.date, r.price, "short", None)
      [] sig = "cover" /\ Len(e.positions) > 0 ->
            CloseEach(e, e.positions, {"short"}, r.date, r.price, r.mc, TRUE)
      [] OTHER -> e

\* the engine after the if/elif chain on the signal, at a row
ProcessSignal(e, sig, r) ==
    CASE sig = "buy" /\ CanOpenPosition(Len(e.positions), max_positions) ->
            OpenPosition(e, r.date, r.price, "long", None)
      [] sig = "sell" /\ Len(e.positions) > 0 ->
            CloseEach(e, e.positions, {"long"}, r.date, r.price, r.mc, TRUE)
      [] sig = "short" /\ CanOpenPosition(Len(e.positions), max_positions)
                       /\ allow_shorting ->
            OpenPosition(e, r.date, r.price, "short", None)
      [] sig = "cover" /\ Len(e.positions) > 0 ->
            CloseEach(e, e.positions, {"short"}, r.date, r.price, r.mc, TRUE)
      [] OTHER -> e

\* one iteration up to the signal's handling: iterrows yields (idx, row), the
\* strategy is called with data.iloc[:idx+1] and answers sig
RunBar(r, sig) ==
    /\ pc = "loop"
    /\ i < nbars
    /\ i > 0 => row.date <= r.date
    /\ row' = r
    /\ LET idx == index_start + i
           e == ProcessSignal(Engine, sig, r)
       IN  /\ history' = IlocLen(nbars, idx + 1)
           /\ Commit(e)
           /\ opened' = IF Len(e.positions) > Len(positions) THEN opened + 1 ELSE opened
    /\ signal' = sig
    /\ quiet' = (quiet /\ sig \notin {"buy", "sell", "short", "cover"})
    /\ pc' = "equity"
    /\ steps' = steps + 1
    /\ args' = <<>>
    /\ UNCHANGED <<registry, config, equity_curve, nbars, index_start, i, run_start, op, ret>>

\* the iteration's last statement: self.update_equity(date, price)
RunUpdateEquity ==
    /\ pc = "equity"
    /\ equity_curve' = Append(equity_curve,
                              EquitySample(capital, positions, row.date, row.price))
    /\ i' = i + 1
    /\ pc' = "loop"
    /\ args' = <<>>
    /\ UNCHANGED <<registry, config, capital, positions, closed_trades, current_date,
                   current_price, opened, nbars, index_start, row, signal, quiet, history,
                   run_start, op, ret, steps>>

\* after the loop: close what is still open at the last row, return get_results()
\* the forced close under the conditions of the last bar
ForcedCloseConditions_LastBar(r) == r.mc

\* `self.close_all_positions(last_date, last_price)`: the market conditions the
\* forced close is given after the last row r, the parameter's default
ForcedCloseConditions(r) == None

RunFinish ==
    /\ pc = "loop"
    /\ i = nbars
    /\ IF Len(positions) > 0 /\ nbars = 0
       THEN \* data[date_col].iloc[-1] of an empty frame
            /\ ret' = "IndexError"
            /\ UNCHANGED <<capital, positions, closed_trades, current_date, current_price>>
       ELSE /\ ret' = "Results"
            /\ IF Len(positions) > 0
               THEN Commit(CloseAllPositions(Engine, row.date, row.price,
                                              ForcedCloseConditions(row), TRUE))
               ELSE UNCHANGED <<capital, positions, closed_trades, current_date,
                                current_price>>
    /\ pc' = "idle"
    /\ nbars' = 0
    /\ index_start' = 0
    /\ i' = 0
    /\ row' = NoRow
    /\ signal' = ""
    /\ history' = 0
    /\ args' = <<>>
    /\ UNCHANGED <<registry, config, equity_curve, opened, quiet, run_start, op, steps>>

\* the kinds of float the prices of a close may be, numpy or Python: the two
\* differ only in net_pnl / position_value for a position of value 0
FloatKinds(closed) ==
    IF \E k \in 1..Len(closed) : closed[k].entry_price * closed[k].quantity = 0
    THEN BOOLEAN ELSE {TRUE}

Next ==
    \/ \E a \in OpenArgs : OpenPositionCall(a.date, a.price, a.side, a.quantity)
    \/ \E position \in Handles, q \in Quotes :
         \E numpy \in FloatKinds(<<position>>) :
            ClosePositionCall(position, q.date, q.price, q.mc, numpy)
    \/ \E q \in Quotes, numpy \in FloatKinds(positions) :
            CloseAllPositionsCall(q.date, q.price, q.mc, numpy)
    \/ \E q \in Quotes : UpdateEquityCall(q.date, q.price)
    \/ Reset
    \/ CanOpenPositionCall
    \/ \E price \in Prices : GetPositionSizeCall(price)
    \/ GetResultsCall
    \/ \E n \in 0..MaxSteps, start \in IndexStarts : RunBacktestCall(n, start)
    \/ \E r \in Bars, sig \in Signals : RunBar(r, sig)
    \/ RunUpdateEquity
    \/ RunFinish

Spec == Init /\ [][Next]_vars


----------------------------------------------------------------------------
(* The cost model called directly, the preset registry, and an engine built *)
(* with the constructor's defaults around one of the cost models            *)

\* CostModel(spread_bps=2.0, base_slippage_bps=0.5, commission_rate=0,
\*           financing_rate_annual=0, exchange_fee_bps=0): fixed slippage, FOREX
OracleModel == CostModel("forex", 20, 0, "fixed", 5, 0, 0)

\* the cost models of the calls: the presets, the model above, a stock broker
\* charging 0.01 per share and an options desk with every rate set
CostModels ==
    {COST_PRESETS[name] : name \in PresetNames}
        \cup {OracleModel,
              CostModel("stocks", 50, 10, "fixed", 10, 8, 0),
              CostModel("options", 20, 1000, "fixed", 5, 5, 10)}

\* the arguments of the calls
CostPrices == {100, 110}
CostQuantities == {10000, -500}
CostDays == {0, 1, 2, 5}
CostConditions == {None, Stressed}
PresetArgs == PresetNames \cup {"forex", ""}

\* an unknown name answered with the default preset
GetCostModel_DefaultOnUnknown(presets, preset) ==
    IF preset \in DOMAIN presets THEN presets[preset] ELSE presets["forex_retail"]

\* get_cost_model(preset): the model returned, or the ValueError raised with
\* the name asked for and list(COST_PRESETS.keys()) in its message
GetCostModel(presets, preset) ==
    IF preset \in DOMAIN presets
    THEN presets[preset]
    ELSE [raised |-> "ValueError", preset |-> preset, available |-> DOMAIN presets]

\* BacktestEngine(cost_model=model): the other arguments at their defaults
InitWith(model) ==
    /\ cost_model = model
    /\ initial_capital = 1000000
    /\ position_size_pct = 10
    /\ max_positions = 1
    /\ allow_shorting = TRUE
    /\ capital = initial_capital
    /\ positions = <<>>
    /\ closed_trades = <<>>
    /\ equity_curve = <<>>
    /\ current_date = NoDate
    /\ current_price = 0
    /\ pc = "idle"
    /\ nbars = 0
    /\ index_start = 0
    /\ i = 0
    /\ row = NoRow
    /\ signal = ""
    /\ quiet = TRUE
    /\ history = 0
    /\ op = "__init__"
    /\ ret = "None"
    /\ opened = 0
    /\ steps = 0
    /\ run_start = [trades |-> 0, positions |-> 0, opened |-> 0, samples |-> 0]
    /\ registry = COST_PRESETS
    /\ args = <<>>

InitCost == \E model \in CostModels : InitWith(model)

\* a call of a cost-model function: it returns value and touches nothing
CostCall(name, arguments, value) ==
    /\ Called(name)
    /\ args' = arguments
    /\ ret' = value
    /\ UNCHANGED <<registry, config, capital, positions, closed_trades, equity_curve,
                   current_date, current_price, opened, runvars>>

CalculateSpreadCostCall(price, quantity, market_conditions) ==
    CostCall("calculate_spread_cost",
             [price |-> price, quantity |-> quantity,
              market_conditions |-> market_conditions],
             CalculateSpreadCost(cost_model, price, quantity, market_conditions))

CalculateSlippageCall(price, quantity, market_conditions) ==
    CostCall("calculate_slippage",
             [price |-> price, quantity |-> quantity,
              market_conditions |-> market_conditions],
             CalculateSlippage(cost_model, price, quantity, market_conditions))

CalculateCommissionCall(price, quantity, is_entry) ==
    CostCall("calculate_commission",
             [price |-> price, quantity |-> quantity, is_entry |-> is_entry],
             CalculateCommission(cost_model, price, quantity, is_entry))

CalculateFinancingCostCall(price, quantity, holding_days, is_long) ==
    CostCall("calculate_financing_cost",
             [price |-> price, quantity |-> quantity,
              holding_days |-> holding_days, is_long |-> is_long],
             CalculateFinancingCost(cost_model, price, quantity, holding_days, is_long))

CalculateExchangeFeesCall(price, quantity) ==
    CostCall("calculate_exchange_fees",
             [price |-> price, quantity |-> quantity],
             CalculateExchangeFees(cost_model, price, quantity))

\* calculate_total_costs(entry_price, exit_price, quantity, holding_days, is_long),
\* the market conditions left at their default None
CalculateTotalCostsCall(entry_price, exit_price, quantity, holding_days, is_long) ==
    CostCall("calculate_total_costs",
             [entry_price |-> entry_price, exit_price |-> exit_price,
              quantity |-> quantity, holding_days |-> holding_days,
              is_long |-> is_long],
             CalculateTotalCosts(cost_model, entry_price, exit_price, quantity,
                                 holding_days, is_long, None, None))

GetCostModelCall(preset) ==
    CostCall("get_cost_model", [preset |-> preset], GetCostModel(registry, preset))

----------------------------------------------------------------------------
(* PerformanceMetrics (metrics/performance_metrics.py) on the dict of        *)
(* get_results.  Rounded results: money in cents, percentages and ratios in  *)
(* hundredths, days in tenths.                                               *)

\* PerformanceMetrics.__init__: the trades and the equity curve as frames, a
\* frame being the sequence of its rows
PerformanceMetrics(results) ==
    [results |-> results,
     trades_df |-> results.trades,
     equity_df |-> results.equity_curve]

\* a frame that is never found empty
EmptyFrame_Never(df) == FALSE

\* len(df) == 0
EmptyFrame(df) == Len(df) = 0

\* df[column] as a sequence
Column(df, column) == [k \in 1..Len(df) |-> df[k][column]]

\* series.max() and series.min() of a series that is not empty
RECURSIVE SeqMax(_)
SeqMax(s) ==
    IF Len(s) = 1 THEN s[1]
    ELSE LET m == SeqMax(Tail(s)) IN IF s[1] > m THEN s[1] ELSE m

RECURSIVE SeqMin(_)
SeqMin(s) ==
    IF Len(s) = 1 THEN s[1]
    ELSE LET m == SeqMin(Tail(s)) IN IF s[1] < m THEN s[1] ELSE m

\* calculate_trade_statistics
CalculateTradeStatistics(m) ==
    IF EmptyFrame(m.trades_df)
    THEN [total_trades |-> 0, winning_trades |-> 0, losing_trades |-> 0,
          win_rate_pct |-> 0, avg_win |-> 0, avg_loss |-> 0, largest_win |-> 0,
          largest_loss |-> 0, profit_factor |-> 0, avg_holding_days |-> 0]
    ELSE IF m.trades_df = <<>>
    THEN \* DataFrame() has no column "net_pnl"
         [raised |-> "KeyError"]
    ELSE LET total_trades == Len(m.trades_df)
             winners == Column(SelectSeq(m.trades_df, LAMBDA t : t.net_pnl > 0), "net_pnl")
             losers == Column(SelectSeq(m.trades_df, LAMBDA t : t.net_pnl < 0), "net_pnl")
             total_wins == IF Len(winners) > 0 THEN SumSeq(winners) ELSE 0
             total_losses == IF Len(losers) > 0 THEN Abs(SumSeq(losers)) ELSE 0
         IN  [total_trades |-> total_trades,
              winning_trades |-> Len(winners),
              losing_trades |-> Len(losers),
              win_rate_pct |-> RDiv(Len(winners) * 10000, total_trades),
              avg_win |-> IF Len(winners) > 0
                          THEN RDiv(SumSeq(winners), Len(winners)) ELSE 0,
              avg_loss |-> IF Len(losers) > 0
                           THEN RDiv(SumSeq(losers), Len(losers)) ELSE 0,
              largest_win |-> IF Len(winners) > 0 THEN SeqMax(winners) ELSE 0,
              largest_loss |-> IF Len(losers) > 0 THEN SeqMin(losers) ELSE 0,
              profit_factor |-> IF total_losses > 0
                                THEN Shifted(total_wins, total_losses, 2) ELSE 0,
              avg_holding_days |->
                  RDiv(SumSeq(Column(m.trades_df, "holding_days")) * 10, total_trades)]

\* calculate_cost_analysis
CalculateCostAnalysis(m) ==
    IF EmptyFrame(m.trades_df)
    THEN [total_costs |-> 0, avg_cost_per_trade |-> 0, costs_pct_of_gross_pnl |-> 0,
          spread_costs |-> 0, slippage_costs |-> 0, commission_costs |-> 0,
          financing_costs |-> 0]
    ELSE IF m.trades_df = <<>>
    THEN \* DataFrame() has no column "spread_cost"
         [raised |-> "KeyError"]
    ELSE LET total_costs == SumSeq(Column(m.trades_df, "total_cost"))
             total_gross_pnl == SumSeq(Column(m.trades_df, "gross_pnl"))
         IN  [total_costs |-> total_costs,
              avg_cost_per_trade |-> RDiv(total_costs, Len(m.trades_df)),
              costs_pct_of_gross_pnl |->
                  IF total_gross_pnl > 0
                  THEN (IF total_costs < 0 THEN -1 ELSE 1)
                          * Shifted(Abs(total_costs) * 100, total_gross_pnl, 2)
                  ELSE 0,
              spread_costs |-> SumSeq(Column(m.trades_df, "spread_cost")),
              slippage_costs |-> SumSeq(Column(m.trades_df, "slippage_cost")),
              commission_costs |-> SumSeq(Column(m.trades_df, "commission")),
              financing_costs |-> SumSeq(Column(m.trades_df, "financing_cost"))]

\* a call on PerformanceMetrics(engine.get_results()): it returns value and
\* touches nothing
MetricsCall(name, value) ==
    /\ Called(name)
    /\ args' = <<>>
    /\ ret' = value
    /\ UNCHANGED <<registry, config, capital, positions, closed_trades, equity_curve,
                   current_date, current_price, opened, runvars>>

CalculateTradeStatisticsCall ==
    MetricsCall("calculate_trade_statistics",
                CalculateTradeStatistics(PerformanceMetrics(GetResults)))

CalculateCostAnalysisCall ==
    MetricsCall("calculate_cost_analysis",
                CalculateCostAnalysis(PerformanceMetrics(GetResults)))

\* a statistic of the metrics: a number on the statistic's grid, a value that
\* is not a finite number (nan, or an infinity), or a finite float the model
\* does not evaluate (a fractional power, a quotient by a standard deviation)
Number(x) == [kind |-> "number", val |-> x]
NotANumber == [kind |-> "nan", val |-> 0]
SomeFloat == [kind |-> "float", val |-> 0]

\* a x 10^n / b rounded to nearest, of either sign (b # 0)
Ratio(a, b, n) ==
    IF (a < 0) = (b < 0) THEN Shifted(Abs(a), Abs(b), n)
    ELSE -Shifted(Abs(a), Abs(b), n)

RECURSIVE GCD(_, _)
GCD(a, b) == IF b = 0 THEN a ELSE GCD(b, a % b)

\* series.pct_change().dropna(): each sample's change over the sample before
\* it, kept as the fraction num / den; den = 0 gives an infinity or nan
PctChange(series) ==
    [k \in 1..(Len(series) - 1) |->
        [num |-> series[k + 1] - series[k], den |-> series[k]]]

Finite(r) == r.den # 0

\* a change in lowest terms, the sign on the numerator
Reduced(r) ==
    LET g == GCD(Abs(r.num), Abs(r.den))
    IN  IF r.num = 0 THEN <<0, 1>>
        ELSE <<(IF (r.num < 0) = (r.den < 0) THEN 1 ELSE -1) * (Abs(r.num) \div g),
               Abs(r.den) \div g>>

\* returns < 0
Negative(r) ==
    IF Finite(r) THEN r.num # 0 /\ (r.num < 0) # (r.den < 0) ELSE r.num < 0

\* a change in 1/10000 percent
PercentOf(r) == Ratio(r.num * 100, r.den, 4)

\* series.mean() of changes, in 1/10000 percent
Mean(changes) ==
    IF \E k \in 1..Len(changes) : ~Finite(changes[k]) THEN NotANumber
    ELSE Number(RDiv(SumSeq([k \in 1..Len(changes) |-> PercentOf(changes[k])]),
                     Len(changes)))

\* series.std() of changes, the sample deviation (ddof = 1): nan for fewer
\* than two changes or a change that is not finite, zero when all are equal,
\* and otherwise positive
Std(changes) ==
    IF Len(changes) < 2 \/ \E k \in 1..Len(changes) : ~Finite(changes[k]) THEN "nan"
    ELSE IF \A k \in 1..Len(changes) : Reduced(changes[k]) = Reduced(changes[1])
    THEN "zero"
    ELSE "positive"

\* (end_date - start_date).days of the equity curve's first and last sample
Days(equity_df) ==
    (equity_df[Len(equity_df)].date - equity_df[1].date) \div 2

\* calculate_return_metrics.  numpy tells whether final_capital is a numpy
\* float, whose fractional power of a negative base is nan, or a Python float,
\* for which the power is a complex number that round() rejects.  The growth
\* of the model's capital is too small for the power to overflow.
CalculateReturnMetrics(m, numpy) ==
    LET initial == m.results.initial_capital
        final == m.results.final_capital
        total_return == Ratio((final - initial) * 100, initial, 2)
        sampled == Len(m.equity_df) > 0
        positive_years == IF sampled THEN Days(m.equity_df) > 0 ELSE TRUE
        years == IF sampled THEN RDiv(Days(m.equity_df) * 10000, 36525) ELSE 100
        complex == positive_years /\ sampled /\ final < 0 /\ ~numpy
        cagr == IF ~positive_years THEN Number(0)
                ELSE IF ~sampled THEN Number(total_return)
                ELSE IF final < 0 THEN NotANumber
                ELSE IF final = 0 THEN Number(-10000)
                ELSE IF final = initial THEN Number(0)
                ELSE SomeFloat
        daily_returns == PctChange(Column(m.equity_df, "total_equity"))
        avg_daily_return == IF Len(m.equity_df) > 1 THEN Mean(daily_returns)
                            ELSE Number(0)
        avg_annual_return == IF avg_daily_return.kind = "number"
                             THEN Number(RDiv(avg_daily_return.val * 252, 100))
                             ELSE avg_daily_return
    IN  IF complex
        THEN \* round(cagr, 2) of a complex number
             [raised |-> "TypeError"]
        ELSE [total_return_pct |-> total_return,
              cagr_pct |-> cagr,
              avg_daily_return_pct |-> avg_daily_return,
              avg_annual_return_pct |-> avg_annual_return,
              years |-> years]

\* equity_curve.expanding().max() at sample k
RunningMax(equity, k) == SeqMax(SubSeq(equity, 1, k))

\* current_duration after sample k, measured against the sample before it
RECURSIVE CurrentDuration_PreviousSample(_, _)
CurrentDuration_PreviousSample(equity, k) ==
    IF k = 0 THEN 0
    ELSE IF k > 1 /\ equity[k] < equity[k - 1]
    THEN CurrentDuration_PreviousSample(equity, k - 1) + 1
    ELSE 0

\* _calculate_drawdown_duration: current_duration after the loop has seen sample k
RECURSIVE CurrentDuration(_, _)
CurrentDuration(equity, k) ==
    IF k = 0 THEN 0
    ELSE IF equity[k] < RunningMax(equity, k)
    THEN CurrentDuration(equity, k - 1) + 1
    ELSE 0

\* _calculate_drawdown_duration: max_duration
CalculateDrawdownDuration(equity) ==
    IF equity = <<>> THEN 0
    ELSE SeqMax([k \in 1..Len(equity) |-> CurrentDuration(equity, k)])

\* drawdown.min(): the percentages below the running maximum, those that are
\* nan passed over
MaxDrawdown(equity) ==
    LET samples == 1..Len(equity)
        defined == {k \in samples : RunningMax(equity, k) # 0}
        drawdown(k) == Ratio((equity[k] - RunningMax(equity, k)) * 100,
                             RunningMax(equity, k), 2)
    IN  IF defined = {}
           \/ \E k \in samples : RunningMax(equity, k) = 0 /\ equity[k] < 0
        THEN NotANumber
        ELSE Number(CHOOSE d \in {drawdown(k) : k \in defined} :
                        \A k \in defined : d <= drawdown(k))

\* calculate_risk_metrics
CalculateRiskMetrics(m) ==
    IF Len(m.equity_df) < 2
    THEN [sharpe_ratio |-> Number(0), sortino_ratio |-> Number(0),
          max_drawdown_pct |-> Number(0), max_drawdown_duration_days |-> 0,
          volatility_annual_pct |-> Number(0)]
    ELSE LET equity == Column(m.equity_df, "total_equity")
             returns == PctChange(equity)
             volatility_daily == Std(returns)
             sharpe == IF volatility_daily = "positive" THEN SomeFloat ELSE Number(0)
             downside_returns == SelectSeq(returns, Negative)
             sortino == IF Len(downside_returns) > 0
                        THEN (IF Std(downside_returns) = "positive"
                              THEN SomeFloat ELSE Number(0))
                        ELSE sharpe
         IN  [sharpe_ratio |-> sharpe,
              sortino_ratio |-> sortino,
              max_drawdown_pct |-> MaxDrawdown(equity),
              max_drawdown_duration_days |-> CalculateDrawdownDuration(equity),
              volatility_annual_pct |->
                  CASE volatility_daily = "nan" -> NotANumber
                    [] volatility_daily = "zero" -> Number(0)
                    [] OTHER -> SomeFloat]

\* calculate_all_metrics: the four dictionaries merged, unless one of the
\* four calls raised
CalculateAllMetrics(m, numpy) ==
    LET parts == <<CalculateReturnMetrics(m, numpy), CalculateRiskMetrics(m),
                   CalculateTradeStatistics(m), CalculateCostAnalysis(m)>>
    IN  IF \E k \in 1..4 : "raised" \in DOMAIN parts[k]
        THEN parts[CHOOSE k \in 1..4 :
                      /\ "raised" \in DOMAIN parts[k]
                      /\ \A j \in 1..(k - 1) : "raised" \notin DOMAIN parts[j]]
        ELSE parts[1] @@ parts[2] @@ parts[3] @@ parts[4]

\* a call on PerformanceMetrics(engine.get_results()) by an observer of the
\* engine, between the engine's own steps
MetricsQuery(name, value) ==
    /\ pc = "idle"
    /\ op' = name
    /\ args' = <<>>
    /\ ret' = value
    /\ UNCHANGED <<registry, config, capital, positions, closed_trades, equity_curve,
                   current_date, current_price, opened, steps, runvars>>

CalculateReturnMetricsCall(numpy) ==
    MetricsQuery("calculate_return_metrics",
                 CalculateReturnMetrics(PerformanceMetrics(GetResults), numpy))

CalculateRiskMetricsCall ==
    MetricsQuery("calculate_risk_metrics",
                 CalculateRiskMetrics(PerformanceMetrics(GetResults)))

CalculateAllMetricsCall(numpy) ==
    MetricsQuery("calculate_all_metrics",
                 CalculateAllMetrics(PerformanceMetrics(GetResults), numpy))

\* the cost-model functions called on a model, in any order
NextCost ==
    \/ \E price \in CostPrices, quantity \in CostQuantities, mc \in CostConditions :
            CalculateSpreadCostCall(price, quantity, mc)
    \/ \E price \in CostPrices, quantity \in CostQuantities, mc \in CostConditions :
            CalculateSlippageCall(price, quantity, mc)
    \/ \E price \in CostPrices, quantity \in CostQuantities, is_entry \in BOOLEAN :
            CalculateCommissionCall(price, quantity, is_entry)
    \/ \E price \in CostPrices, quantity \in CostQuantities, holding_days \in CostDays,
          is_long \in BOOLEAN :
            CalculateFinancingCostCall(price, quantity, holding_days, is_long)
    \/ \E price \in CostPrices, quantity \in CostQuantities :
            CalculateExchangeFeesCall(price, quantity)
    \/ \E exit_price \in CostPrices, holding_days \in {0, 5}, is_long \in BOOLEAN :
            CalculateTotalCostsCall(100, exit_price, 10000, holding_days, is_long)
    \/ \E preset \in PresetArgs : GetCostModelCall(preset)

SpecCost == InitCost /\ [][NextCost]_vars

\* an engine around a preset fetched from the registry or around the model of
\* the worked example, trading 100 units entered at 100 and left at 110 five
\* days later, with the registry and calculate_total_costs called in between
OracleModels == {COST_PRESETS[name] : name \in PresetNames} \cup {OracleModel}
OracleBars == {[date |-> 10, price |-> 110, mc |-> Calm]}
OracleSignals == {"buy", "sell", "hold"}

InitOracle == \E model \in OracleModels : InitWith(model)

NextOracle ==
    \/ \E exit_price \in CostPrices, holding_days \in {0, 5}, is_long \in BOOLEAN :
            CalculateTotalCostsCall(100, exit_price, 10000, holding_days, is_long)
    \/ \E preset \in PresetArgs : GetCostModelCall(preset)
    \/ \E side \in {"long", "short"} : OpenPositionCall(0, 100, side, Some(10000))
    \/ \E position \in Handles, numpy \in BOOLEAN :
            ClosePositionCall(position, 10, 110, None, numpy)
    \/ GetResultsCall
    \/ CalculateTradeStatisticsCall
    \/ CalculateCostAnalysisCall
    \/ Reset
    \/ \E n \in 0..MaxSteps : RunBacktestCall(n, 0)
    \/ \E r \in OracleBars, sig \in OracleSignals : RunBar(r, sig)
    \/ RunUpdateEquity
    \/ RunFinish

SpecOracle == InitOracle /\ [][NextOracle]_vars

\* an engine staking its whole capital on each of two positions, forex or a
\* futures model with an exchange fee, run over falling and recovering prices
\* a day apart and measured after the run
ExchangeModel == CostModel("futures", 10, 2500, "fixed", 5, 0, 10)
MetricsModels == {COST_PRESETS["forex_retail"], ExchangeModel}
MetricsBars == {[date |-> 0, price |-> 100, mc |-> Calm],
                [date |-> 2, price |-> 50, mc |-> Calm],
                [date |-> 4, price |-> 100, mc |-> Calm]}
MetricsSignals == {"buy", "sell", "short", "hold"}

InitMetrics ==
    /\ cost_model \in MetricsModels
    /\ initial_capital = 100000
    /\ position_size_pct = 100
    /\ max_positions = 2
    /\ allow_shorting = TRUE
    /\ capital = initial_capital
    /\ positions = <<>>
    /\ closed_trades = <<>>
    /\ equity_curve = <<>>
    /\ current_date = NoDate
    /\ current_price = 0
    /\ pc = "idle"
    /\ nbars = 0
    /\ index_start = 0
    /\ i = 0
    /\ row = NoRow
    /\ signal = ""
    /\ quiet = TRUE
    /\ history = 0
    /\ op = "__init__"
    /\ ret = "None"
    /\ opened = 0
    /\ steps = 0
    /\ run_start = [trades |-> 0, positions |-> 0, opened |-> 0, samples |-> 0]
    /\ registry = COST_PRESETS
    /\ args = <<>>

NextMetrics ==
    \/ \E n \in 0..MaxSteps : RunBacktestCall(n, 0)
    \/ \E r \in MetricsBars, sig \in MetricsSignals : RunBar(r, sig)
    \/ RunUpdateEquity
    \/ RunFinish
    \/ \E numpy \in BOOLEAN : CalculateReturnMetricsCall(numpy)
    \/ CalculateRiskMetricsCall
    \/ CalculateCostAnalysisCall
    \/ \E numpy \in BOOLEAN : CalculateAllMetricsCall(numpy)

SpecMetrics == InitMetrics /\ [][NextMetrics]_vars


----------------------------------------------------------------------------
(* Properties *)

\* the sum of net_pnl over a sequence of trades
SumNetPnl(trades) == SumSeq([k \in 1..Len(trades) |-> trades[k].net_pnl])

\* the trades a step appended to closed_trades
Appended == SubSeq(closed_trades', Len(closed_trades) + 1, Len(closed_trades'))

AppendsOnly ==
    /\ Len(closed_trades') >= Len(closed_trades)
    /\ SubSeq(closed_trades', 1, Len(closed_trades)) = closed_trades

Ledger == capital = initial_capital + SumNetPnl(closed_trades)

\* C1: in every reachable state capital is initial_capital plus the net_pnl of
\* the trades in closed_trades; a step changes capital only by closing positions,
\* by exactly the net_pnl of the trades it appends (reset restoring
\* initial_capital and emptying closed_trades), and open_position,
\* update_equity, can_open_position, get_position_size and get_results leave
\* capital as it was.
C1_CapitalLedger ==
    /\ Ledger
    /\ [][/\ Ledger'
          /\ op' \in {"open_position", "update_equity", "can_open_position",
                      "get_position_size", "get_results"} => capital' = capital
          /\ capital' # capital =>
                \/ op' = "reset" /\ capital' = initial_capital /\ closed_trades' = <<>>
                \/ /\ op' \in {"close_position", "close_all_positions", "run_backtest"}
                   /\ AppendsOnly
                   /\ Appended # <<>>
                   /\ capital' = capital + SumNetPnl(Appended)]_vars

\* C1 witness: two trades are closed and the capital has moved
C1_Witness ==
    /\ Len(closed_trades) >= 2
    /\ capital # initial_capital
    /\ closed_trades[1].net_pnl # 0
    /\ closed_trades[2].net_pnl # 0


\* C2: at every point of run_backtest and after any sequence of open_position
\* and close_position calls, an engine with max_positions >= 0 holds at most
\* max_positions open positions.
C2_PositionLimit == max_positions >= 0 => Len(positions) <= max_positions

\* C2 witness: inside run_backtest, a buy signal has filled the last free slot of
\* an engine allowed two positions
C2_Witness ==
    /\ pc = "equity"
    /\ signal = "buy"
    /\ max_positions = 2
    /\ Len(positions) = max_positions
    /\ positions[2].entry_date = row.date

\* C3: every trade in closed_trades has net_pnl = gross_pnl - total_cost, its
\* gross_pnl is (exit - entry) x quantity for a long and (entry - exit) x quantity
\* for a short, its costs' total_cost is the sum of the five components, and
\* Trade.to_dict carries a total_cost equal to the sum of the five components it
\* carries.
C3_TradeAccounting ==
    \A k \in 1..Len(closed_trades) :
        LET t == closed_trades[k]
            d == TradeToDict(t)
            total == t.costs.spread_cost + t.costs.slippage_cost + t.costs.commission
                        + t.costs.financing_cost + t.costs.exchange_fees
        IN  /\ TotalCost(t.costs) = total
            /\ t.net_pnl = t.gross_pnl - total
            /\ t.side = "long" => t.gross_pnl = (t.exit_price - t.entry_price) * t.quantity
            /\ t.side = "short" => t.gross_pnl = (t.entry_price - t.exit_price) * t.quantity
            /\ d.total_cost = d.spread_cost + d.slippage_cost + d.commission
                                + d.financing_cost + d.exchange_fees
            /\ d.net_pnl = d.gross_pnl - d.total_cost

\* C3 witness: run_backtest has returned after closing a long on a sell signal
\* and a short by the forced close at the end, both with costs and a price move
C3_Witness ==
    /\ op = "run_backtest"
    /\ ret = "Results"
    /\ Len(closed_trades) = 2
    /\ closed_trades[1].side = "long"
    /\ closed_trades[2].side = "short"
    /\ \A k \in 1..2 : /\ TotalCost(closed_trades[k].costs) > 0
                       /\ closed_trades[k].gross_pnl # 0


\* C1 as stated, without reset among the operations that change capital: a step
\* changes capital only by appending trades through close_position, by their
\* net_pnl.
C1_OnlyClosePosition ==
    [][capital' # capital =>
          /\ op' \in {"close_position", "close_all_positions", "run_backtest"}
          /\ AppendsOnly
          /\ Appended # <<>>
          /\ capital' = capital + SumNetPnl(Appended)]_vars

\* C4: each position is closed exactly once: no more trades are in the ledger
\* than positions were opened and are no longer open, whatever sequence of
\* open_position, close_position and close_all_positions calls was made, a
\* close_position of a position no longer open included.
C4_ClosedOnce == Len(closed_trades) + Len(positions) <= opened

\* C5: open_position returns False and leaves capital, the positions, the trades
\* and the equity curve as they were when the open-position count is already
\* max_positions or the side is short with allow_shorting false; in every other
\* case it returns True and appends exactly one position, of the side, date and
\* price given and the quantity given or sized from the capital.
C5_OpenPosition ==
    [][\A a \in OpenArgs :
          OpenPositionCall(a.date, a.price, a.side, a.quantity) =>
              IF \/ Len(positions) >= max_positions
                 \/ a.side = "short" /\ ~allow_shorting
              THEN /\ ret' = "False"
                   /\ UNCHANGED <<capital, positions, closed_trades, equity_curve>>
              ELSE /\ ret' = "True"
                   /\ Len(positions') = Len(positions) + 1
                   /\ SubSeq(positions', 1, Len(positions)) = positions
                   /\ LET new == positions'[Len(positions')]
                      IN  /\ new.side = a.side
                          /\ new.entry_date = a.date
                          /\ new.entry_price = a.price
                          /\ new.quantity =
                                IF a.quantity.none
                                THEN RDiv(RDiv(capital * position_size_pct, 100), a.price)
                                ELSE a.quantity.val
                   /\ UNCHANGED <<capital, closed_trades, equity_curve>>]_vars

\* C5 witness: an engine with a free slot and shorting disabled has refused a
\* short
C5_Witness ==
    /\ op = "open_position"
    /\ ret = "False"
    /\ ~allow_shorting
    /\ Len(positions) < max_positions


\* the engine was as constructed when the run in progress, or the last one, began
FreshAtRunStart ==
    /\ run_start.trades = 0
    /\ run_start.positions = 0
    /\ run_start.opened = 0
    /\ run_start.samples = 0

\* C6: run_backtest on a fresh engine over N bars with a strategy that never
\* answers buy, sell, short or cover returns with zero trades, an equity curve of
\* exactly N samples, each with unrealized_pnl = 0 and num_positions = 0, and
\* with capital = initial_capital.
C6_QuietRun ==
    [][pc = "loop" /\ pc' = "idle" /\ quiet /\ FreshAtRunStart =>
          /\ ret' = "Results"
          /\ closed_trades' = <<>>
          /\ positions' = <<>>
          /\ Len(equity_curve') = nbars
          /\ \A k \in 1..Len(equity_curve') :
                /\ equity_curve'[k].unrealized_pnl = 0
                /\ equity_curve'[k].num_positions = 0
                /\ equity_curve'[k].total_equity = initial_capital
          /\ capital' = initial_capital]_vars

\* C6 witness: run_backtest has returned from three bars of a strategy that
\* answered hold each time, on an engine that was fresh
C6_Witness ==
    /\ op = "run_backtest"
    /\ ret = "Results"
    /\ pc = "idle"
    /\ quiet
    /\ FreshAtRunStart
    /\ Len(equity_curve) = 3
    /\ equity_curve[3].date > equity_curve[1].date


\* the positions of a side, in order
OfSide(s, side) == SelectSeq(s, LAMBDA p : p.side = side)

\* the other side
Opposite(side) == IF side = "long" THEN "short" ELSE "long"

\* a step of run_backtest that handles a signal closes exactly the open positions
\* of a side, at the bar, and leaves the others as they were
ClosesSide(side) ==
    /\ positions' = OfSide(positions, Opposite(side))
    /\ OfSide(positions', side) = <<>>
    /\ AppendsOnly
    /\ Len(Appended) = Len(OfSide(positions, side))
    /\ \A k \in 1..Len(Appended) :
          /\ PositionOf(Appended[k]) = OfSide(positions, side)[k]
          /\ Appended[k].exit_date = row'.date
          /\ Appended[k].exit_price = row'.price

\* C7: in run_backtest a sell signal at a bar closes every open long at the
\* bar's date and price and leaves every open short untouched; a cover signal
\* closes every open short and leaves every open long untouched; afterwards no
\* position of the closed side is open.
C7_SellCover ==
    [][pc = "loop" /\ pc' = "equity" =>
          /\ signal' = "sell" => ClosesSide("long")
          /\ signal' = "cover" => ClosesSide("short")]_vars

\* C7 witness: a sell signal has closed a long at the bar and a short is still
\* open
C7_Witness ==
    /\ pc = "equity"
    /\ signal = "sell"
    /\ Len(positions) = 1
    /\ positions[1].side = "short"
    /\ Len(closed_trades) = 1
    /\ closed_trades[1].side = "long"
    /\ closed_trades[1].exit_date = row.date
    /\ closed_trades[1].exit_price = row.price


\* a step of run_backtest that handles a signal appends one position of a side,
\* entered at the bar and sized from the capital at that moment
OpensOne(side) ==
    /\ positions' = Append(positions,
                           [entry_date |-> row'.date,
                            entry_price |-> row'.price,
                            quantity |-> RDiv(RDiv(capital * position_size_pct, 100),
                                              row'.price),
                            side |-> side])
    /\ UNCHANGED <<capital, closed_trades, equity_curve>>

\* C8: in run_backtest a buy signal at a bar with fewer than max_positions open
\* appends exactly one long position, entered at the bar's date and price with
\* quantity capital x position_size_pct / price for the capital at that moment;
\* a short signal does the same with side short when, and only when, capacity
\* allows and allow_shorting is true; otherwise the signal changes nothing.
C8_BuyShort ==
    [][pc = "loop" /\ pc' = "equity" =>
          /\ signal' = "buy" =>
                IF Len(positions) < max_positions
                THEN OpensOne("long")
                ELSE UNCHANGED <<capital, positions, closed_trades, equity_curve>>
          /\ signal' = "short" =>
                IF Len(positions) < max_positions /\ allow_shorting
                THEN OpensOne("short")
                ELSE UNCHANGED <<capital, positions, closed_trades, equity_curve>>]_vars

\* C8 witness: a buy signal has opened a long sized from a capital that trades
\* had moved away from the initial capital
C8_Witness ==
    /\ pc = "equity"
    /\ signal = "buy"
    /\ capital # initial_capital
    /\ Len(positions) >= 1
    /\ LET new == positions[Len(positions)]
       IN  /\ new.side = "long"
           /\ new.entry_date = row.date
           /\ new.entry_price = row.price
           /\ new.quantity = RDiv(RDiv(capital * position_size_pct, 100), row.price)
           /\ new.quantity # RDiv(RDiv(initial_capital * position_size_pct, 100), row.price)


\* C9: when run_backtest returns no position is open: those still open after
\* the last bar have been closed, in order, at the last bar's date and price,
\* and the trades closed during the run are as many as the positions opened
\* during it and those open when it began (on a fresh engine: as many trades as
\* positions opened).
C9_ReturnsFlat ==
    [][pc = "loop" /\ pc' = "idle" /\ ret' = "Results" =>
          /\ positions' = <<>>
          /\ AppendsOnly
          /\ Len(Appended) = Len(positions)
          /\ \A k \in 1..Len(Appended) :
                /\ PositionOf(Appended[k]) = positions[k]
                /\ Appended[k].exit_date = row.date
                /\ Appended[k].exit_price = row.price
          /\ Len(closed_trades') - run_start.trades
                = (opened' - run_start.opened) + run_start.positions
          /\ FreshAtRunStart => Len(closed_trades') = opened']_vars

\* C9 witness: run_backtest has returned on a fresh engine; a long and a short
\* were open at the last bar's equity sample and were closed at that bar
C9_Witness ==
    /\ op = "run_backtest"
    /\ ret = "Results"
    /\ pc = "idle"
    /\ FreshAtRunStart
    /\ positions = <<>>
    /\ equity_curve # <<>>
    /\ Len(closed_trades) = 2
    /\ LET last == equity_curve[Len(equity_curve)]
       IN  /\ last.num_positions = 2
           /\ closed_trades[1].side # closed_trades[2].side
           /\ \A k \in 1..2 : /\ closed_trades[k].exit_date = last.date
                              /\ closed_trades[k].exit_price = last.price
                              /\ closed_trades[k].entry_date < last.date


\* C10: no lookahead: at the bar at position i (from 0) of the input series the
\* history handed to the strategy is exactly the bars at positions 0..i, i + 1
\* of them, never a bar after i and never fewer, for every input series.
C10_NoLookahead == pc = "equity" => history = i + 1


\* the samples a step appends to the equity curve
NewSamples == SubSeq(equity_curve', Len(equity_curve) + 1, Len(equity_curve'))

\* the equity curve keeps the samples it has
KeepsSamples ==
    /\ Len(equity_curve') >= Len(equity_curve)
    /\ SubSeq(equity_curve', 1, Len(equity_curve)) = equity_curve

\* C11: a run_backtest call over N bars appends exactly N equity-curve
\* samples, one per bar in bar order, the i-th with the date and price of the
\* i-th bar; on a fresh or reset engine the curve returned has length N; and no
\* step but reset changes or removes a sample the curve already has.
C11_OneSamplePerBar ==
    /\ pc \in {"loop", "equity"} => Len(equity_curve) = run_start.samples + i
    /\ [][/\ op' # "reset" => KeepsSamples
          /\ pc = "loop" /\ pc' = "equity" => equity_curve' = equity_curve
          /\ pc = "equity" =>
                /\ Len(NewSamples) = 1
                /\ NewSamples[1].date = row.date
                /\ NewSamples[1].price = row.price
                /\ i' = i + 1
          /\ pc = "loop" /\ pc' = "idle" =>
                /\ Len(equity_curve') = run_start.samples + nbars
                /\ run_start.samples = 0 => Len(equity_curve') = nbars]_vars

\* C11 witness: run_backtest has returned from two bars on an engine whose curve
\* already had a sample: the old sample is in place and the two new ones follow
\* it in bar order
C11_Witness ==
    /\ op = "run_backtest"
    /\ ret = "Results"
    /\ pc = "idle"
    /\ run_start.samples = 1
    /\ Len(equity_curve) = 3
    /\ equity_curve[2].date < equity_curve[3].date
    /\ equity_curve[2].price # equity_curve[3].price

\* the mark to market of the open positions at a price, written out
Unrealized(open_positions, price) ==
    SumSeq([k \in 1..Len(open_positions) |->
              IF open_positions[k].side = "long"
              THEN (price - open_positions[k].entry_price) * open_positions[k].quantity
              ELSE (open_positions[k].entry_price - price) * open_positions[k].quantity])

\* C12: every equity-curve sample has total_equity = capital + unrealized_pnl
\* and num_positions <= max_positions, and the sample a step appends carries the
\* engine's capital at that time, the mark to market at the sample's price of
\* the positions open at that time ((price - entry) x quantity for a long,
\* (entry - price) x quantity for a short) and their number.
C12_EquitySample ==
    /\ \A k \in 1..Len(equity_curve) :
          /\ equity_curve[k].total_equity
                = equity_curve[k].capital + equity_curve[k].unrealized_pnl
          /\ equity_curve[k].num_positions <= max_positions
    /\ [][\A k \in 1..Len(NewSamples) :
              /\ NewSamples[k].capital = capital
              /\ NewSamples[k].unrealized_pnl = Unrealized(positions, NewSamples[k].price)
              /\ NewSamples[k].num_positions = Len(positions)
              /\ NewSamples[k].total_equity
                    = capital + Unrealized(positions, NewSamples[k].price)]_vars

\* C12 witness: a sample taken with a long and a short open, away from their
\* entry prices and after a trade had moved the capital
C12_Witness ==
    /\ equity_curve # <<>>
    /\ LET last == equity_curve[Len(equity_curve)]
       IN  /\ last.num_positions = 1
           /\ last.unrealized_pnl # 0
           /\ last.capital # initial_capital
           /\ last.total_equity = last.capital + last.unrealized_pnl
           /\ Len(positions) = 1
           /\ positions[1].side = "short"


\* every field of the engine is as __init__ leaves it
Fresh ==
    /\ capital = initial_capital
    /\ positions = <<>>
    /\ closed_trades = <<>>
    /\ equity_curve = <<>>
    /\ current_date = NoDate
    /\ current_price = 0

\* C13: reset() restores the engine to its initial configuration whatever came
\* before: capital = initial_capital, no position, no trade, no sample, and the
\* constructor's parameters as they were; the engine after reset is in every
\* field the engine __init__ built, so run_backtest after reset returns what it
\* returns on a newly built engine with the same parameters.
C13_Reset ==
    /\ op \in {"__init__", "reset"} => Fresh
    /\ [][/\ op' = "reset" => Fresh'
          /\ config' = config]_vars

\* C13 witness: a reset has emptied an engine that had closed a trade, taken an
\* equity sample and run a backtest
C13_Witness ==
    /\ op = "reset"
    /\ Fresh
    /\ run_start.trades >= 1
    /\ run_start.samples >= 1


\* the trade of the worked example: 100 units long from 100 to 110 over five days
IsOracleTrade(t) ==
    /\ t.side = "long"
    /\ t.entry_price = 100
    /\ t.exit_price = 110
    /\ t.quantity = 10000
    /\ t.holding_days = 5

\* C14: with spread_bps = 2.0, fixed slippage of 0.5 bps and no commission,
\* financing or exchange fee, calculate_total_costs(100, 110, 100, 5, long)
\* without market conditions returns spread_cost 4.20, slippage_cost 1.05,
\* commission 0, financing_cost 0, in total 5.25; and the engine closing such a
\* long records gross_pnl 1000.00, net_pnl 994.75 and return_pct 9.9475.
C14_Oracle ==
    cost_model = OracleModel =>
        /\ op = "calculate_total_costs"
              /\ args = [entry_price |-> 100, exit_price |-> 110, quantity |-> 10000,
                         holding_days |-> 5, is_long |-> TRUE]
              => /\ ret = [spread_cost |-> 420, slippage_cost |-> 105, commission |-> 0,
                           financing_cost |-> 0, exchange_fees |-> 0]
                 /\ TotalCost(ret) = 525
        /\ \A k \in 1..Len(closed_trades) :
              IsOracleTrade(closed_trades[k]) =>
                  /\ closed_trades[k].costs
                        = [spread_cost |-> 420, slippage_cost |-> 105, commission |-> 0,
                           financing_cost |-> 0, exchange_fees |-> 0]
                  /\ closed_trades[k].gross_pnl = 100000
                  /\ closed_trades[k].net_pnl = 99475
                  /\ closed_trades[k].return_pct = [nan |-> FALSE, val |-> 99475]
                  /\ TradeToDict(closed_trades[k]).total_cost = 525

\* C14 witness: close_position has closed the trade of the example on an engine
\* with that cost model, leaving 10994.75 of the initial 10000.00
C14_Witness ==
    /\ cost_model = OracleModel
    /\ op = "close_position"
    /\ ret = "Trade"
    /\ Len(closed_trades) = 1
    /\ IsOracleTrade(closed_trades[1])
    /\ capital = 1099475


\* price x |quantity| x (financing_rate_annual / 365), the financing of one day,
\* in the model's units
OneDay(price, quantity) ==
    RDiv(price * Abs(quantity) * RDiv(cost_model.financing_rate_annual * 10000, 365),
         1000000)

\* C15: calculate_financing_cost is 0 for holding_days = 0 and otherwise
\* factor x price x |quantity| x (financing_rate_annual / 365) x holding_days
\* with factor 1 for a long, -1 for a short on FOREX and 1.5 for a short on any
\* other asset class; so it is linear in holding_days: the cost of n days is n
\* times the cost of one day, of 2 days twice that of 1.
C15_Financing ==
    op = "calculate_financing_cost" =>
        /\ ret = IF args.holding_days = 0 THEN 0
                 ELSE IF args.is_long
                      THEN OneDay(args.price, args.quantity) * args.holding_days
                 ELSE IF cost_model.asset_class = "forex"
                      THEN (-1) * OneDay(args.price, args.quantity) * args.holding_days
                 ELSE RDiv(15 * OneDay(args.price, args.quantity), 10) * args.holding_days
        /\ ret = args.holding_days
                    * CalculateFinancingCost(cost_model, args.price, args.quantity, 1,
                                             args.is_long)
        /\ CalculateFinancingCost(cost_model, args.price, args.quantity, 2, args.is_long)
              = 2 * CalculateFinancingCost(cost_model, args.price, args.quantity, 1,
                                           args.is_long)

\* C15 witness: a short of two days on a stock model with a financing rate has
\* been charged more than the long would be
C15_Witness ==
    /\ op = "calculate_financing_cost"
    /\ cost_model.asset_class = "stocks"
    /\ ~args.is_long
    /\ args.holding_days = 2
    /\ ret > 2 * OneDay(args.price, args.quantity)
    /\ OneDay(args.price, args.quantity) > 0

\* C16: calculate_commission is, for either value of is_entry,
\* commission_rate x |quantity| on FOREX and FUTURES; on STOCKS
\* (commission_rate / 100) x price x |quantity| when commission_rate < 0.01 and
\* commission_rate x |quantity| otherwise; (commission_rate / 100) x price x
\* |quantity| on CRYPTO; and 0 on OPTIONS.
C16_Commission ==
    op = "calculate_commission" =>
        LET rate == cost_model.commission_rate
            flat == RDiv(rate * Abs(args.quantity), 1000)
            percentage == RDiv(rate * args.price * Abs(args.quantity), 100000)
        IN  /\ cost_model.asset_class \in {"forex", "futures"} => ret = flat
            /\ cost_model.asset_class = "stocks" /\ rate < 10 => ret = percentage
            /\ cost_model.asset_class = "stocks" /\ rate >= 10 => ret = flat
            /\ cost_model.asset_class = "crypto" => ret = percentage
            /\ cost_model.asset_class = "options" => ret = 0
            /\ ret = CalculateCommission(cost_model, args.price, args.quantity,
                                         ~args.is_entry)

\* C16 witness: a stock model with a rate of exactly 0.01 has charged an exit
\* per share, which is not what the percentage would be
C16_Witness ==
    /\ op = "calculate_commission"
    /\ cost_model.asset_class = "stocks"
    /\ cost_model.commission_rate = 10
    /\ ~args.is_entry
    /\ ret = RDiv(10 * Abs(args.quantity), 1000)
    /\ ret # RDiv(10 * args.price * Abs(args.quantity), 100000)
    /\ ret > 0


\* a row of the preset table: asset_class, spread_bps, commission_rate,
\* base_slippage_bps, financing_rate_annual, slippage_model
Tabled(name) ==
    CASE name = "forex_retail" -> <<"forex", 20, 0, 5, 5, "fixed">>
      [] name = "forex_institutional" -> <<"forex", 5, 0, 2, 3, "fixed">>
      [] name = "stocks_commission_free" -> <<"stocks", 50, 0, 10, 8, "fixed">>
      [] name = "stocks_traditional" -> <<"stocks", 50, 5, 10, 8, "fixed">>
      [] name = "crypto_exchange" -> <<"crypto", 100, 100, 50, 0, "volatility">>
      [] name = "futures_cme" -> <<"futures", 10, 2500, 5, 0, "fixed">>

\* the six tabled fields of a cost model
TabledFields(cm) ==
    <<cm.asset_class, cm.spread_bps, cm.commission_rate, cm.base_slippage_bps,
      cm.financing_rate_annual, cm.slippage_model>>

\* the six names of the table
TabledNames == {"forex_retail", "forex_institutional", "stocks_commission_free",
                "stocks_traditional", "crypto_exchange", "futures_cme"}

\* C17: the preset registry is a fixed read-only table: in every state reached
\* by cost-model calls, engine operations and backtests on a model from the
\* registry it holds the six presets with the tabled values, and
\* get_cost_model(name) returns the configuration tabled for name.
C17_Registry ==
    /\ DOMAIN registry = TabledNames
    /\ \A name \in TabledNames : TabledFields(registry[name]) = Tabled(name)
    /\ op = "get_cost_model" /\ args.preset \in TabledNames =>
          TabledFields(ret) = Tabled(args.preset)
    /\ [][registry' = registry]_vars

\* C17 witness: get_cost_model("crypto_exchange") has returned the tabled
\* configuration after a backtest on an engine built around that preset closed
\* a trade
C17_Witness ==
    /\ op = "get_cost_model"
    /\ args.preset = "crypto_exchange"
    /\ TabledFields(ret) = <<"crypto", 100, 100, 50, 0, "volatility">>
    /\ cost_model = registry["crypto_exchange"]
    /\ Len(closed_trades) >= 1
    /\ Len(equity_curve) >= 1

\* C18: get_cost_model with a name that is not one of the six presets raises a
\* ValueError whose message names the name asked for and lists the valid
\* names; no model is returned and the registry is as it was.
C18_UnknownPreset ==
    [][op' = "get_cost_model" /\ args'.preset \notin TabledNames =>
          /\ ret' = [raised |-> "ValueError", preset |-> args'.preset,
                     available |-> TabledNames]
          /\ registry' = registry]_vars

\* C18 witness: get_cost_model("forex"), an asset class and not a preset, has
\* raised
C18_Witness ==
    /\ op = "get_cost_model"
    /\ args.preset = "forex"
    /\ ret.raised = "ValueError"
    /\ ret.preset = "forex"
    /\ ret.available = DOMAIN registry


\* C19: get_results returns the fields initial_capital, final_capital,
\* total_return_pct, num_trades, trades and equity_curve, with final_capital the
\* current capital, total_return_pct = (final_capital - initial_capital) /
\* initial_capital x 100, num_trades the length of trades, and trades holding one
\* serialized entry per closed trade in closing order.
C19_GetResults ==
    op = "get_results" =>
        /\ DOMAIN GetResults = {"initial_capital", "final_capital", "total_return_pct",
                                "num_trades", "trades", "equity_curve"}
        /\ GetResults.final_capital = capital
        /\ GetResults.total_return_pct
              = (IF capital < initial_capital THEN -1 ELSE 1)
                    * Shifted(Abs(capital - initial_capital) * 100, initial_capital, 4)
        /\ GetResults.num_trades = Len(GetResults.trades)
        /\ Len(GetResults.trades) = Len(closed_trades)
        /\ \A k \in 1..Len(closed_trades) :
              GetResults.trades[k] = TradeToDict(closed_trades[k])


\* C20: on results with zero trades calculate_trade_statistics does not raise
\* and returns total_trades, winning_trades, losing_trades, win_rate_pct,
\* avg_win, avg_loss, largest_win, largest_loss, profit_factor and
\* avg_holding_days all 0, and calculate_cost_analysis does not raise and
\* returns every field 0.
C20_ZeroTrades ==
    GetResults.trades = <<>> =>
        /\ op = "calculate_trade_statistics" =>
              ret = [total_trades |-> 0, winning_trades |-> 0, losing_trades |-> 0,
                     win_rate_pct |-> 0, avg_win |-> 0, avg_loss |-> 0,
                     largest_win |-> 0, largest_loss |-> 0, profit_factor |-> 0,
                     avg_holding_days |-> 0]
        /\ op = "calculate_cost_analysis" =>
              /\ "raised" \notin DOMAIN ret
              /\ \A field \in DOMAIN ret : ret[field] = 0

\* C20 witness: calculate_trade_statistics has returned its zeros for the
\* results of a backtest that took an equity sample and made no trade
C20_Witness ==
    /\ op = "calculate_trade_statistics"
    /\ GetResults.trades = <<>>
    /\ Len(GetResults.equity_curve) >= 1
    /\ ret.total_trades = 0
    /\ ret.avg_holding_days = 0


\* C23: in run_backtest the equity sample of a bar is taken after every open
\* and close made at that bar, the forced close at the final bar included: when
\* a run that appended samples returns, the last sample has capital equal to
\* the final capital and counts no open position.
C23_LastSample ==
    /\ op = "run_backtest"
    /\ ret = "Results"
    /\ pc = "idle"
    /\ Len(equity_curve) > run_start.samples
    => /\ equity_curve[Len(equity_curve)].capital = capital
       /\ equity_curve[Len(equity_curve)].num_positions = 0

\* C24: every position the engine holds has entry_price > 0 and quantity > 0,
\* also when sized automatically after losing trades.
C24_PositiveQuantity ==
    \A k \in 1..Len(positions) :
        /\ positions[k].entry_price > 0
        /\ positions[k].quantity > 0

\* C25: every trade run_backtest produces over bars in date order has
\* exit_date >= entry_date and holding_days >= 0, the number of whole days
\* between the two dates (dates are in half days); a trade entered and left on
\* the same date has holding_days = 0 and financing_cost = 0.
C25_HoldingDays ==
    [][pc = "loop" =>
          \A k \in 1..Len(Appended) :
              LET t == Appended[k]
              IN  /\ t.exit_date >= t.entry_date
                  /\ t.holding_days >= 0
                  /\ 2 * t.holding_days <= t.exit_date - t.entry_date
                  /\ t.exit_date - t.entry_date < 2 * t.holding_days + 2
                  /\ t.exit_date = t.entry_date =>
                        /\ t.holding_days = 0
                        /\ t.costs.financing_cost = 0]_vars

\* C25 witness: a backtest has closed one position on the day it was opened,
\* without financing, and another a day after, with financing
C25_Witness ==
    /\ op = "run_backtest"
    /\ Len(closed_trades) = 2
    /\ closed_trades[1].exit_date = closed_trades[1].entry_date
    /\ closed_trades[1].holding_days = 0
    /\ closed_trades[1].costs.financing_cost = 0
    /\ closed_trades[2].holding_days = 1
    /\ closed_trades[2].costs.financing_cost # 0


\* the market conditions of the bar with a date and a price (the bars of the
\* model differ in date or price); a position opened by a direct call at a
\* bar's date and price was opened under no conditions, which cost the same as
\* the calm ones
ConditionsAt(date, price) ==
    (CHOOSE b \in Bars : b.date = date /\ b.price = price).mc

\* C26: for every trade run_backtest produces by a signal, the entry leg's
\* spread and slippage are those of the entry price under the market
\* conditions of the bar of the entry, the exit leg's those of the exit price
\* under the conditions of the bar of the exit.
C26_LegConditions ==
    [][pc = "loop" /\ pc' = "equity" /\ run_start.positions = 0 =>
          \A k \in 1..Len(Appended) :
              LET t == Appended[k]
                  entry == ConditionsAt(t.entry_date, t.entry_price)
                  exit == row'.mc
              IN  /\ t.costs.spread_cost
                        = CalculateSpreadCost(cost_model, t.entry_price, t.quantity, entry)
                            + CalculateSpreadCost(cost_model, t.exit_price, t.quantity, exit)
                  /\ t.costs.slippage_cost
                        = CalculateSlippage(cost_model, t.entry_price, t.quantity, entry)
                            + CalculateSlippage(cost_model, t.exit_price, t.quantity, exit)]_vars

\* the costs of a trade closed under given conditions, as close_position
\* computes them
CostsUnder(t, market_conditions) ==
    CalculateTotalCosts(cost_model, t.entry_price, t.exit_price, t.quantity,
                        t.holding_days, t.side = "long",
                        market_conditions, market_conditions)

\* C29: the forced close at the end of run_backtest charges the trade with no
\* market conditions, which is as with volatility, liquidity and volume_ratio
\* all 1.0, whatever the last bar's values; a close by a sell or cover signal
\* charges it under the bar's conditions.
C29_ForcedClose ==
    [][/\ pc = "loop" /\ pc' = "idle" =>
             \A k \in 1..Len(Appended) :
                 /\ Appended[k].costs = CostsUnder(Appended[k], None)
                 /\ Appended[k].costs = CostsUnder(Appended[k], Calm)
                 /\ Appended[k].net_pnl
                       = Appended[k].gross_pnl - TotalCost(CostsUnder(Appended[k], Calm))
       /\ pc = "loop" /\ pc' = "equity" =>
             \A k \in 1..Len(Appended) :
                 /\ Appended[k].costs = CostsUnder(Appended[k], row'.mc)
                 /\ Appended[k].net_pnl
                       = Appended[k].gross_pnl - TotalCost(CostsUnder(Appended[k], row'.mc))]_vars

\* C29 witness: a backtest has ended on a stressed bar with a forced close,
\* which cost less than a signal's close at that bar would have
C29_Witness ==
    /\ op = "run_backtest"
    /\ ret = "Results"
    /\ pc = "idle"
    /\ Len(closed_trades) >= 1
    /\ Len(equity_curve) > run_start.samples
    /\ LET t == closed_trades[Len(closed_trades)]
           last == equity_curve[Len(equity_curve)]
       IN  /\ last.num_positions >= 1
           /\ ConditionsAt(last.date, last.price) = Stressed
           /\ t.exit_date = last.date
           /\ t.exit_price = last.price
           /\ t.costs = CostsUnder(t, None)
           /\ TotalCost(t.costs) < TotalCost(CostsUnder(t, Stressed))

\* C30: in run_backtest a bar either opens at most one position or closes
\* positions of a single side, never both: the open-position count rises by at
\* most 1, a bar that opens a position appends no trade, and a bar that
\* appends trades opens no position and closes one side only.
C30_OneActionPerBar ==
    [][pc = "loop" /\ pc' = "equity" =>
          /\ Len(positions') <= Len(positions) + 1
          /\ AppendsOnly
          /\ Len(positions') > Len(positions) =>
                /\ Appended = <<>>
                /\ SubSeq(positions', 1, Len(positions)) = positions
          /\ Appended # <<>> =>
                /\ Len(positions') = Len(positions) - Len(Appended)
                /\ \A k \in 1..Len(Appended) : Appended[k].side = Appended[1].side
                /\ positions' = OfSide(positions, Opposite(Appended[1].side))
          /\ Appended = <<>> /\ Len(positions') <= Len(positions) =>
                positions' = positions]_vars

\* C30 witness: a sell signal on an engine with a free slot has closed a long
\* and opened nothing
C30_Witness ==
    /\ pc = "equity"
    /\ signal = "sell"
    /\ max_positions = 2
    /\ positions = <<>>
    /\ Len(closed_trades) = 1
    /\ closed_trades[1].exit_date = row.date


\* C27: under the stocks_traditional preset the commission of a leg is $0.005
\* per share, 0.005 x |quantity|, whatever the price.
C27_PerShare ==
    /\ op = "calculate_commission"
    /\ cost_model = COST_PRESETS["stocks_traditional"]
    => ret = RDiv(5 * Abs(args.quantity), 1000)


\* the equity of the samples taken so far
TotalEquity == Column(equity_curve, "total_equity")

\* sample k lies strictly below the highest sample up to and including it
Below(equity, k) == \E j \in 1..k : equity[j] > equity[k]

\* the length of the longest run of consecutive samples below their running maximum
LongestRun(equity) ==
    LET runs == {<<a, b>> \in (1..Len(equity)) \X (1..Len(equity)) :
                    a <= b /\ \A k \in a..b : Below(equity, k)}
    IN  IF runs = {} THEN 0
        ELSE CHOOSE n \in 1..Len(equity) :
                /\ \E r \in runs : r[2] - r[1] + 1 = n
                /\ \A r \in runs : r[2] - r[1] + 1 <= n

NonDecreasing(equity) == \A k \in 1..(Len(equity) - 1) : equity[k] <= equity[k + 1]

\* C28 as stated: the max_drawdown_duration of the risk metrics is the length
\* of the longest run of consecutive samples whose total_equity is strictly
\* below the maximum of the samples up to and including them, 0 for a
\* non-decreasing curve, and at most the number of samples minus one.
C28_AsStated ==
    op = "calculate_risk_metrics" =>
        /\ ret.max_drawdown_duration_days = LongestRun(TotalEquity)
        /\ NonDecreasing(TotalEquity) => ret.max_drawdown_duration_days = 0
        /\ ret.max_drawdown_duration_days <= Len(equity_curve) - 1

\* C28 amended: the same, the bound of the number of samples minus one holding
\* for a curve of at least one sample; for an empty curve the duration is 0.
C28_DrawdownDuration ==
    op = "calculate_risk_metrics" =>
        /\ ret.max_drawdown_duration_days = LongestRun(TotalEquity)
        /\ NonDecreasing(TotalEquity) => ret.max_drawdown_duration_days = 0
        /\ Len(equity_curve) >= 1 =>
              ret.max_drawdown_duration_days <= Len(equity_curve) - 1
        /\ Len(equity_curve) = 0 => ret.max_drawdown_duration_days = 0

\* C28 witness: the risk metrics of a curve that fell and only partly
\* recovered: the third sample is above the second and still in drawdown
C28_Witness ==
    /\ op = "calculate_risk_metrics"
    /\ Len(equity_curve) = 3
    /\ TotalEquity[2] < TotalEquity[3]
    /\ TotalEquity[3] < TotalEquity[1]
    /\ ret.max_drawdown_duration_days = 2

\* the sum of the fields named in a set of a record of numbers
RECURSIVE SumFields(_, _)
SumFields(r, fields) ==
    IF fields = {} THEN 0
    ELSE LET f == CHOOSE g \in fields : TRUE
         IN  r[f] + SumFields(r, fields \ {f})

\* C22: for a ledger that is not empty calculate_cost_analysis reports the sum
\* over the trades of each of the five cost components (spread, slippage,
\* commission, financing, exchange fees); total_costs is the sum of the
\* reported component totals, avg_cost_per_trade is total_costs / number of
\* trades, and costs_pct_of_gross_pnl is total_costs / gross P&L x 100, or 0
\* when the gross P&L is not positive.
C22_CostAnalysis ==
    op = "calculate_cost_analysis" /\ closed_trades # <<>> =>
        LET trades == [k \in 1..Len(closed_trades) |-> TradeToDict(closed_trades[k])]
            sum(column) == SumSeq(Column(trades, column))
            components == DOMAIN ret \ {"total_costs", "avg_cost_per_trade",
                                        "costs_pct_of_gross_pnl"}
            gross == sum("gross_pnl")
        IN  /\ ret.spread_costs = sum("spread_cost")
            /\ ret.slippage_costs = sum("slippage_cost")
            /\ ret.commission_costs = sum("commission")
            /\ ret.financing_costs = sum("financing_cost")
            /\ \E f \in components \ {"spread_costs", "slippage_costs",
                                      "commission_costs", "financing_costs"} :
                    ret[f] = sum("exchange_fees")
            /\ ret.total_costs = SumFields(ret, components)
            /\ ret.avg_cost_per_trade = RDiv(ret.total_costs, Len(trades))
            /\ gross > 0 =>
                  ret.costs_pct_of_gross_pnl = Ratio(ret.total_costs * 100, gross, 2)
            /\ gross <= 0 => ret.costs_pct_of_gross_pnl = 0

\* C22, what of it the code does: the four reported components are their sums
\* over the trades, and total_costs, which counts the exchange fees, is the
\* sum of the four only when no exchange fee was charged
C22_FourComponents ==
    op = "calculate_cost_analysis" /\ closed_trades # <<>> =>
        LET trades == [k \in 1..Len(closed_trades) |-> TradeToDict(closed_trades[k])]
            sum(column) == SumSeq(Column(trades, column))
        IN  /\ DOMAIN ret = {"total_costs", "avg_cost_per_trade", "costs_pct_of_gross_pnl",
                             "spread_costs", "slippage_costs", "commission_costs",
                             "financing_costs"}
            /\ ret.total_costs
                  = ret.spread_costs + ret.slippage_costs + ret.commission_costs
                      + ret.financing_costs + sum("exchange_fees")

\* a run has charged an exchange fee that the cost analysis then left out of
\* its components
C22_FeeLeftOut ==
    /\ op = "calculate_cost_analysis"
    /\ closed_trades # <<>>
    /\ closed_trades[1].costs.exchange_fees > 0
    /\ ret.total_costs
          > ret.spread_costs + ret.slippage_costs + ret.commission_costs
              + ret.financing_costs

\* C21: calculate_all_metrics completes without raising for every results
\* structure run_backtest can return: an empty equity curve, a single sample,
\* constant equity, zero trades, a final_capital that is zero or negative; the
\* statistics a degenerate case affects take their default, 0.
C21_Total ==
    op = "calculate_all_metrics" =>
        /\ "raised" \notin DOMAIN ret
        /\ Len(equity_curve) <= 1 =>
              /\ ret.avg_daily_return_pct = Number(0)
              /\ ret.sharpe_ratio = Number(0)
              /\ ret.sortino_ratio = Number(0)
              /\ ret.max_drawdown_pct = Number(0)
              /\ ret.max_drawdown_duration_days = 0
              /\ ret.volatility_annual_pct = Number(0)
        /\ Len(equity_curve) = 1 => ret.cagr_pct = Number(0) /\ ret.years = 0
        /\ (\A k \in 1..Len(equity_curve) : TotalEquity[k] = TotalEquity[1]) =>
              /\ ret.volatility_annual_pct = Number(0)
              /\ ret.sharpe_ratio = Number(0)
              /\ ret.sortino_ratio = Number(0)
        /\ closed_trades = <<>> =>
              /\ ret.total_trades = 0
              /\ ret.win_rate_pct = 0
              /\ ret.profit_factor = 0
              /\ ret.total_costs = 0
        /\ capital <= 0 => ret.cagr_pct.kind = "number"

\* C21, the runs it fails on: a run that lost more than the capital and lasted
\* a day or more has no metrics, calculate_all_metrics raising TypeError or
\* answering a cagr that is nan
C21_NegativeCapital ==
    /\ op = "calculate_all_metrics"
    /\ capital < 0
    /\ Len(equity_curve) >= 2
    /\ Days(equity_curve) > 0
    /\ \/ ret = [raised |-> "TypeError"]
       \/ "raised" \notin DOMAIN ret /\ ret.cagr_pct = NotANumber

\* C21, the second: the metrics of a run of two bars with constant equity have
\* a volatility that is nan
C21_TwoSamples ==
    /\ op = "calculate_all_metrics"
    /\ Len(equity_curve) = 2
    /\ TotalEquity[1] = TotalEquity[2]
    /\ "raised" \notin DOMAIN ret
    /\ ret.volatility_annual_pct = NotANumber


====
